---- MODULE Spec2Model ----
(***************************************************************************)
(* ImageHexEditor: the JPEG byte classifier (jpegStructure.ts) and the     *)
(* editor state with its undo/redo history (editorState.ts).               *)
(*                                                                         *)
(* Offsets are 0-based as in the source; a Uint8Array is a sequence whose  *)
(* element at offset i is seq[i + 1].  A nullable value is null (<<>>) or  *)
(* Some(v) (<<v>>).                                                        *)
(***************************************************************************)
EXTENDS Integers, Sequences, FiniteSets, TLC

\* ------------------------------------------------------------------------
\* Bounds of the model
\* ------------------------------------------------------------------------
\* longest history a push may produce
MaxHistory == 3
\* longest buffer an insert may produce
MaxLen == 6

\* ------------------------------------------------------------------------
\* Helpers for nullable values and 0-based arrays
\* ------------------------------------------------------------------------
null == <<>>
Some(v) == <<v>>
Val(o) == o[1]

Min(a, b) == IF a < b THEN a ELSE b
Max(a, b) == IF a > b THEN a ELSE b

\* bytes[i] of a Uint8Array
At(arr, i) == arr[i + 1]
\* arr.subarray(from, to) / arr.slice(from, to) with 0 <= from, to <= length
Slice(arr, from, to) == SubSeq(arr, from + 1, to)
\* arr[i] = v on a typed array: a write outside [0, length) is ignored
SetAt(arr, i, v) ==
    IF i >= 0 /\ i < Len(arr) THEN [arr EXCEPT ![i + 1] = v] ELSE arr

\* ------------------------------------------------------------------------
\* jpegStructure.ts: RegionCode
\* ------------------------------------------------------------------------
Unknown == 0
Soi == 1
App == 2
Dqt == 3
Sof == 4
SofWidth == 5
Dht == 6
Dri == 7
SosHeader == 8
Scan == 9
Rst == 10
Com == 11
Eoi == 12
Other == 13

RegionCodes == Unknown..Other

\* markRange(regions, start, end, code)
markRange(regions, start, end, code) ==
    IF start < 0 \/ end > Len(regions)
    THEN regions
    ELSE LET s == Max(0, start)
             e == Min(end, Len(regions))
         IN [k \in 1..Len(regions) |->
                IF k - 1 >= s /\ k - 1 < e THEN code ELSE regions[k]]

\* markByte(regions, index, code)
markByte(regions, index, code) ==
    IF index >= 0 /\ index < Len(regions)
    THEN [regions EXCEPT ![index + 1] = code]
    ELSE regions

\* readSegment that takes the length to count the two marker bytes as well
readSegmentLengthOnly(bytes, markerStart) ==
    LET len == Len(bytes) IN
    IF markerStart + 3 >= len THEN null
    ELSE LET segLen == At(bytes, markerStart + 2) * 256 + At(bytes, markerStart + 3)
             end == markerStart + segLen
         IN IF segLen < 2 THEN null
            ELSE IF end > len THEN null
            ELSE Some([headerEnd |-> end, segmentEnd |-> end])

\* readSegment(bytes, markerStart): null or {headerEnd, segmentEnd}
readSegment(bytes, markerStart) ==
    LET len == Len(bytes) IN
    IF markerStart + 3 >= len THEN null
    ELSE LET segLen == At(bytes, markerStart + 2) * 256 + At(bytes, markerStart + 3)
             end == markerStart + 2 + segLen
         IN IF segLen < 2 THEN null
            ELSE IF end > len THEN null
            ELSE Some([headerEnd |-> end, segmentEnd |-> end])

\* isSofMarker that takes every id C0-CF except C4 for a frame header
isSofMarkerWithExtensions(marker) ==
    (marker \div 16) = 12 /\ marker # 196

\* isSofMarker(marker): (marker & 0xf0) === 0xc0, but not C4, C8, CC
isSofMarker(marker) ==
    (marker \div 16) = 12 /\ marker # 196 /\ marker # 200 /\ marker # 204

\* the loops of consumeScanData from position i: the regions written and the
\* position returned
RECURSIVE consumeScanLoop(_, _, _)
consumeScanLoop(bytes, regions, i) ==
    LET len == Len(bytes) IN
    IF ~(i < len - 1)
    THEN \* trailing bytes at the end of the file
         [regions |-> [k \in 1..len |-> IF k - 1 >= i THEN Scan ELSE regions[k]],
          pos |-> len]
    ELSE IF At(bytes, i) # 255
    THEN consumeScanLoop(bytes, [regions EXCEPT ![i + 1] = Scan], i + 1)
    ELSE LET next == At(bytes, i + 1) IN
         IF next = 0
         THEN consumeScanLoop(bytes,
                  [regions EXCEPT ![i + 1] = Scan, ![i + 2] = Scan], i + 2)
         ELSE IF next >= 208 /\ next <= 215
         THEN consumeScanLoop(bytes, markRange(regions, i, i + 2, Rst), i + 2)
         ELSE IF next = 255
         THEN consumeScanLoop(bytes, [regions EXCEPT ![i + 1] = Scan], i + 1)
         ELSE [regions |-> regions, pos |-> i]

\* consumeScanData(bytes, regions, start)
consumeScanData(bytes, regions, start) == consumeScanLoop(bytes, regions, start)

\* the while loop of analyzeJpeg from position pos
RECURSIVE analyzeLoop(_, _, _)
analyzeLoop(bytes, regions, pos) ==
    LET len == Len(bytes) IN
    IF ~(pos < len - 1) THEN regions
    ELSE IF At(bytes, pos) # 255
    THEN analyzeLoop(bytes,
             IF regions[pos + 1] = Unknown
             THEN [regions EXCEPT ![pos + 1] = Other] ELSE regions,
             pos + 1)
    ELSE IF pos + 1 >= len THEN regions
    ELSE LET marker == At(bytes, pos + 1)
             markerStart == pos
         IN
         IF marker = 217
         THEN analyzeLoop(bytes,
                  markRange(regions, markerStart, Min(markerStart + 2, len), Eoi),
                  markerStart + 2)
         ELSE IF marker = 216
         THEN analyzeLoop(bytes,
                  markRange(regions, markerStart, Min(markerStart + 2, len), Soi),
                  markerStart + 2)
         ELSE IF marker >= 208 /\ marker <= 215
         THEN analyzeLoop(bytes,
                  markRange(regions, markerStart, Min(markerStart + 2, len), Rst),
                  markerStart + 2)
         ELSE IF marker = 1
         THEN analyzeLoop(bytes,
                  markRange(regions, markerStart, Min(markerStart + 2, len), Other),
                  markerStart + 2)
         ELSE LET seg == readSegment(bytes, markerStart) IN
              IF seg = null THEN regions
              ELSE LET headerEnd == Val(seg).headerEnd
                       segmentEnd == Val(seg).segmentEnd
                   IN
                   IF marker >= 224 /\ marker <= 239
                   THEN analyzeLoop(bytes,
                            markRange(regions, markerStart, segmentEnd, App), segmentEnd)
                   ELSE IF marker = 219
                   THEN analyzeLoop(bytes,
                            markRange(regions, markerStart, segmentEnd, Dqt), segmentEnd)
                   ELSE IF isSofMarker(marker)
                   THEN analyzeLoop(bytes,
                            markByte(
                                markByte(
                                    markRange(regions, markerStart, segmentEnd, Sof),
                                    markerStart + 7, SofWidth),
                                markerStart + 8, SofWidth),
                            segmentEnd)
                   ELSE IF marker = 196
                   THEN analyzeLoop(bytes,
                            markRange(regions, markerStart, segmentEnd, Dht), segmentEnd)
                   ELSE IF marker = 221
                   THEN analyzeLoop(bytes,
                            markRange(regions, markerStart, segmentEnd, Dri), segmentEnd)
                   ELSE IF marker = 218
                   THEN LET c == consumeScanData(bytes,
                                     markRange(regions, markerStart, headerEnd, SosHeader),
                                     headerEnd)
                        IN analyzeLoop(bytes, c.regions, c.pos)
                   ELSE IF marker = 254
                   THEN analyzeLoop(bytes,
                            markRange(regions, markerStart, segmentEnd, Com), segmentEnd)
                   ELSE analyzeLoop(bytes,
                            markRange(regions, markerStart, segmentEnd, Other), segmentEnd)

\* analyzeJpeg(bytes): null or the layout {length, regions}
analyzeJpeg(bytes) ==
    LET len == Len(bytes) IN
    IF len < 4 THEN null
    ELSE IF ~(At(bytes, 0) = 255 /\ At(bytes, 1) = 216) THEN null
    ELSE LET regions == [k \in 1..len |-> Unknown] IN
         Some([length |-> len,
               regions |-> analyzeLoop(bytes, markRange(regions, 0, 2, Soi), 2)])

\* codeToRegion(code)
codeToRegion(code) ==
    CASE code = Soi -> "soi"
      [] code = App -> "app"
      [] code = Dqt -> "dqt"
      [] code = Sof -> "sof"
      [] code = SofWidth -> "sof-width"
      [] code = Dht -> "dht"
      [] code = Dri -> "dri"
      [] code = SosHeader -> "sos-header"
      [] code = Scan -> "scan"
      [] code = Rst -> "rst"
      [] code = Com -> "com"
      [] code = Eoi -> "eoi"
      [] code = Other -> "other"
      [] OTHER -> "unknown"

\* classifyByte(offset, layout)
classifyByte(offset, layout) ==
    IF layout = null \/ offset < 0 \/ offset >= Val(layout).length
    THEN "unknown"
    ELSE codeToRegion(At(Val(layout).regions, offset))

\* ------------------------------------------------------------------------
\* analyzeJpeg one loop iteration at a time.  An iteration maps the regions
\* and the position to [regions, pos, pc, branch]: the regions and position
\* it leaves, where control goes next ("outer": the while loop of
\* analyzeJpeg, "scan" and "trail": the two loops of consumeScanData,
\* "return": analyzeJpeg returns the layout) and the branch it took.
\* ------------------------------------------------------------------------
\* the iteration of the older copy of analyzeJpeg: the EOI is marked and the
\* loop left, and a further SOI is read as a segment
analyzeIterationOlderCopy(bytes, regions, pos) ==
    LET len == Len(bytes)
        To(r, p, pc, branch) == [regions |-> r, pos |-> p, pc |-> pc, branch |-> branch]
    IN
    IF ~(pos < len - 1) THEN To(regions, pos, "return", "end")
    ELSE IF At(bytes, pos) # 255
    THEN To(IF At(regions, pos) = Unknown
            THEN [regions EXCEPT ![pos + 1] = Other] ELSE regions,
            pos + 1, "outer", "byte")
    ELSE IF pos + 1 >= len THEN To(regions, pos, "return", "end")
    ELSE LET marker == At(bytes, pos + 1)
             markerStart == pos
         IN
         IF marker = 217
         THEN To(markRange(regions, markerStart, Min(markerStart + 2, len), Eoi),
                 pos, "return", "eoi")
         ELSE IF marker >= 208 /\ marker <= 215
         THEN To(markRange(regions, markerStart, Min(markerStart + 2, len), Rst),
                 markerStart + 2, "outer", "rst")
         ELSE IF marker = 1
         THEN To(markRange(regions, markerStart, Min(markerStart + 2, len), Other),
                 markerStart + 2, "outer", "tem")
         ELSE LET seg == readSegment(bytes, markerStart) IN
              IF seg = null THEN To(regions, pos, "return", "abort")
              ELSE LET headerEnd == Val(seg).headerEnd
                       segmentEnd == Val(seg).segmentEnd
                   IN
                   IF marker >= 224 /\ marker <= 239
                   THEN To(markRange(regions, markerStart, segmentEnd, App),
                           segmentEnd, "outer", "app")
                   ELSE IF marker = 219
                   THEN To(markRange(regions, markerStart, segmentEnd, Dqt),
                           segmentEnd, "outer", "dqt")
                   ELSE IF isSofMarker(marker)
                   THEN To(markByte(
                               markByte(
                                   markRange(regions, markerStart, segmentEnd, Sof),
                                   markerStart + 7, SofWidth),
                               markerStart + 8, SofWidth),
                           segmentEnd, "outer", "sof")
                   ELSE IF marker = 196
                   THEN To(markRange(regions, markerStart, segmentEnd, Dht),
                           segmentEnd, "outer", "dht")
                   ELSE IF marker = 221
                   THEN To(markRange(regions, markerStart, segmentEnd, Dri),
                           segmentEnd, "outer", "dri")
                   ELSE IF marker = 218
                   THEN To(markRange(regions, markerStart, headerEnd, SosHeader),
                           headerEnd, "scan", "sos")
                   ELSE IF marker = 254
                   THEN To(markRange(regions, markerStart, segmentEnd, Com),
                           segmentEnd, "outer", "com")
                   ELSE To(markRange(regions, markerStart, segmentEnd, Other),
                           segmentEnd, "outer", "segment")

\* one iteration of the while loop of analyzeJpeg
analyzeIteration(bytes, regions, pos) ==
    LET len == Len(bytes)
        To(r, p, pc, branch) == [regions |-> r, pos |-> p, pc |-> pc, branch |-> branch]
    IN
    IF ~(pos < len - 1) THEN To(regions, pos, "return", "end")
    ELSE IF At(bytes, pos) # 255
    THEN To(IF At(regions, pos) = Unknown
            THEN [regions EXCEPT ![pos + 1] = Other] ELSE regions,
            pos + 1, "outer", "byte")
    ELSE IF pos + 1 >= len THEN To(regions, pos, "return", "end")
    ELSE LET marker == At(bytes, pos + 1)
             markerStart == pos
         IN
         IF marker = 217
         THEN To(markRange(regions, markerStart, Min(markerStart + 2, len), Eoi),
                 markerStart + 2, "outer", "eoi")
         ELSE IF marker = 216
         THEN To(markRange(regions, markerStart, Min(markerStart + 2, len), Soi),
                 markerStart + 2, "outer", "soi")
         ELSE IF marker >= 208 /\ marker <= 215
         THEN To(markRange(regions, markerStart, Min(markerStart + 2, len), Rst),
                 markerStart + 2, "outer", "rst")
         ELSE IF marker = 1
         THEN To(markRange(regions, markerStart, Min(markerStart + 2, len), Other),
                 markerStart + 2, "outer", "tem")
         ELSE LET seg == readSegment(bytes, markerStart) IN
              IF seg = null THEN To(regions, pos, "return", "abort")
              ELSE LET headerEnd == Val(seg).headerEnd
                       segmentEnd == Val(seg).segmentEnd
                   IN
                   IF marker >= 224 /\ marker <= 239
                   THEN To(markRange(regions, markerStart, segmentEnd, App),
                           segmentEnd, "outer", "app")
                   ELSE IF marker = 219
                   THEN To(markRange(regions, markerStart, segmentEnd, Dqt),
                           segmentEnd, "outer", "dqt")
                   ELSE IF isSofMarker(marker)
                   THEN To(markByte(
                               markByte(
                                   markRange(regions, markerStart, segmentEnd, Sof),
                                   markerStart + 7, SofWidth),
                               markerStart + 8, SofWidth),
                           segmentEnd, "outer", "sof")
                   ELSE IF marker = 196
                   THEN To(markRange(regions, markerStart, segmentEnd, Dht),
                           segmentEnd, "outer", "dht")
                   ELSE IF marker = 221
                   THEN To(markRange(regions, markerStart, segmentEnd, Dri),
                           segmentEnd, "outer", "dri")
                   ELSE IF marker = 218
                   THEN To(markRange(regions, markerStart, headerEnd, SosHeader),
                           headerEnd, "scan", "sos")
                   ELSE IF marker = 254
                   THEN To(markRange(regions, markerStart, segmentEnd, Com),
                           segmentEnd, "outer", "com")
                   ELSE To(markRange(regions, markerStart, segmentEnd, Other),
                           segmentEnd, "outer", "segment")

\* consumeScanData iteration that does not know the stuffed pair FF 00
consumeScanIterationNoStuffing(bytes, regions, i) ==
    LET len == Len(bytes)
        To(r, p, pc, branch) == [regions |-> r, pos |-> p, pc |-> pc, branch |-> branch]
    IN
    IF ~(i < len - 1) THEN To(regions, i, "trail", "tail")
    ELSE IF At(bytes, i) # 255
    THEN To([regions EXCEPT ![i + 1] = Scan], i + 1, "scan", "data")
    ELSE LET next == At(bytes, i + 1) IN
         IF next >= 208 /\ next <= 215
         THEN To(markRange(regions, i, i + 2, Rst), i + 2, "scan", "restart")
         ELSE IF next = 255
         THEN To([regions EXCEPT ![i + 1] = Scan], i + 1, "scan", "fill")
         ELSE To(regions, i, "outer", "marker")

\* consumeScanData iteration that consumes FF FF as a pair
consumeScanIterationFillPair(bytes, regions, i) ==
    LET len == Len(bytes)
        To(r, p, pc, branch) == [regions |-> r, pos |-> p, pc |-> pc, branch |-> branch]
    IN
    IF ~(i < len - 1) THEN To(regions, i, "trail", "tail")
    ELSE IF At(bytes, i) # 255
    THEN To([regions EXCEPT ![i + 1] = Scan], i + 1, "scan", "data")
    ELSE LET next == At(bytes, i + 1) IN
         IF next = 0
         THEN To([regions EXCEPT ![i + 1] = Scan, ![i + 2] = Scan], i + 2, "scan", "stuffed")
         ELSE IF next >= 208 /\ next <= 215
         THEN To(markRange(regions, i, i + 2, Rst), i + 2, "scan", "restart")
         ELSE IF next = 255
         THEN To([regions EXCEPT ![i + 1] = Scan, ![i + 2] = Scan], i + 2, "scan", "fill")
         ELSE To(regions, i, "outer", "marker")

\* consumeScanData iteration that does not move past a fill byte
consumeScanIterationFillStays(bytes, regions, i) ==
    LET len == Len(bytes)
        To(r, p, pc, branch) == [regions |-> r, pos |-> p, pc |-> pc, branch |-> branch]
    IN
    IF ~(i < len - 1) THEN To(regions, i, "trail", "tail")
    ELSE IF At(bytes, i) # 255
    THEN To([regions EXCEPT ![i + 1] = Scan], i + 1, "scan", "data")
    ELSE LET next == At(bytes, i + 1) IN
         IF next = 0
         THEN To([regions EXCEPT ![i + 1] = Scan, ![i + 2] = Scan], i + 2, "scan", "stuffed")
         ELSE IF next >= 208 /\ next <= 215
         THEN To(markRange(regions, i, i + 2, Rst), i + 2, "scan", "restart")
         ELSE IF next = 255
         THEN To([regions EXCEPT ![i + 1] = Scan], i, "scan", "fill")
         ELSE To(regions, i, "outer", "marker")

\* one iteration of the first loop of consumeScanData
consumeScanIteration(bytes, regions, i) ==
    LET len == Len(bytes)
        To(r, p, pc, branch) == [regions |-> r, pos |-> p, pc |-> pc, branch |-> branch]
    IN
    IF ~(i < len - 1) THEN To(regions, i, "trail", "tail")
    ELSE IF At(bytes, i) # 255
    THEN To([regions EXCEPT ![i + 1] = Scan], i + 1, "scan", "data")
    ELSE LET next == At(bytes, i + 1) IN
         IF next = 0
         THEN To([regions EXCEPT ![i + 1] = Scan, ![i + 2] = Scan], i + 2, "scan", "stuffed")
         ELSE IF next >= 208 /\ next <= 215
         THEN To(markRange(regions, i, i + 2, Rst), i + 2, "scan", "restart")
         ELSE IF next = 255
         THEN To([regions EXCEPT ![i + 1] = Scan], i + 1, "scan", "fill")
         ELSE To(regions, i, "outer", "marker")

\* one iteration of the trailing loop of consumeScanData
consumeTrailIteration(bytes, regions, i) ==
    IF i < Len(bytes)
    THEN [regions |-> [regions EXCEPT ![i + 1] = Scan], pos |-> i + 1,
          pc |-> "trail", branch |-> "trailing"]
    ELSE [regions |-> regions, pos |-> Len(bytes), pc |-> "outer", branch |-> "eof"]

\* analyzeJpeg that accepts an input when either sentinel byte matches
analyzeStartEitherByte(bytes) ==
    LET len == Len(bytes) IN
    IF len < 4
    THEN [bytes |-> bytes, regions |-> <<>>, pos |-> 0, pc |-> "done", layout |-> null]
    ELSE IF ~(At(bytes, 0) = 255 \/ At(bytes, 1) = 216)
    THEN [bytes |-> bytes, regions |-> <<>>, pos |-> 0, pc |-> "done", layout |-> null]
    ELSE [bytes |-> bytes,
          regions |-> markRange([k \in 1..len |-> Unknown], 0, 2, Soi),
          pos |-> 2, pc |-> "outer", layout |-> null]

\* analyzeJpeg up to its while loop: rejects the input (returns null) or
\* allocates regions, marks the SOI and sets pos to 2
analyzeStart(bytes) ==
    LET len == Len(bytes) IN
    IF len < 4
    THEN [bytes |-> bytes, regions |-> <<>>, pos |-> 0, pc |-> "done", layout |-> null]
    ELSE IF ~(At(bytes, 0) = 255 /\ At(bytes, 1) = 216)
    THEN [bytes |-> bytes, regions |-> <<>>, pos |-> 0, pc |-> "done", layout |-> null]
    ELSE [bytes |-> bytes,
          regions |-> markRange([k \in 1..len |-> Unknown], 0, 2, Soi),
          pos |-> 2, pc |-> "outer", layout |-> null]

\* analyzeJpeg that returns the position reached as the layout's length
analyzeReturnScanned(a) ==
    [a EXCEPT !.pc = "done",
              !.layout = Some([length |-> a.pos, regions |-> a.regions])]

\* the return statement of analyzeJpeg
analyzeReturn(a) ==
    [a EXCEPT !.pc = "done",
              !.layout = Some([length |-> Len(a.bytes), regions |-> a.regions])]

\* ------------------------------------------------------------------------
\* editorState.ts: EditorState and its operations.  Every operation maps a
\* state to [state, ret, calls]: the state it leaves, the value it returns
\* (null for void) and the number of times it invoked the mutator.
\* ------------------------------------------------------------------------
\* createEmptyState()
createEmptyState ==
    [bytes |-> null,
     fileName |-> null,
     fileSize |-> 0,
     layout |-> null,
     activeOffset |-> 0,
     history |-> <<>>,
     historyIndex |-> -1]

\* pushSnapshot that forgets to drop the redo branch and steps the cursor
pushSnapshotKeepsRedo(state, bytes, fileName) ==
    LET snapshot == bytes
        history == Append(state.history, snapshot)
    IN [bytes |-> Some(snapshot),
        fileName |-> fileName,
        fileSize |-> Len(snapshot),
        layout |-> analyzeJpeg(snapshot),
        activeOffset |->
            IF state.activeOffset >= Len(snapshot)
            THEN (IF Len(snapshot) > 0 THEN Len(snapshot) - 1 ELSE 0)
            ELSE state.activeOffset,
        history |-> history,
        historyIndex |-> state.historyIndex + 1]

\* pushSnapshot that writes the snapshot over the entry at the cursor
pushSnapshotOverwrites(state, bytes, fileName) ==
    LET snapshot == bytes
        history == IF state.historyIndex >= 0
                   THEN [state.history EXCEPT ![state.historyIndex + 1] = snapshot]
                   ELSE Append(state.history, snapshot)
    IN [bytes |-> Some(snapshot),
        fileName |-> fileName,
        fileSize |-> Len(snapshot),
        layout |-> analyzeJpeg(snapshot),
        activeOffset |->
            IF state.activeOffset >= Len(snapshot)
            THEN (IF Len(snapshot) > 0 THEN Len(snapshot) - 1 ELSE 0)
            ELSE state.activeOffset,
        history |-> history,
        historyIndex |-> IF state.historyIndex >= 0 THEN state.historyIndex ELSE 0]

\* pushSnapshot(state, bytes, fileName): the state it leaves
pushSnapshot(state, bytes, fileName) ==
    LET snapshot == bytes
        kept == IF state.historyIndex >= 0
                   /\ state.historyIndex < Len(state.history) - 1
                THEN Slice(state.history, 0, state.historyIndex + 1)
                ELSE state.history
        history == Append(kept, snapshot)
    IN [bytes |-> Some(snapshot),
        fileName |-> fileName,
        fileSize |-> Len(snapshot),
        layout |-> analyzeJpeg(snapshot),
        activeOffset |->
            IF state.activeOffset >= Len(snapshot)
            THEN (IF Len(snapshot) > 0 THEN Len(snapshot) - 1 ELSE 0)
            ELSE state.activeOffset,
        history |-> history,
        historyIndex |-> Len(history) - 1]

\* restoreFromHistory that does not re-clamp activeOffset
restoreFromHistoryNoClamp(state) ==
    LET current == At(state.history, state.historyIndex) IN
    [state EXCEPT
        !.bytes = Some(current),
        !.fileSize = Len(current),
        !.layout = analyzeJpeg(current)]

\* restoreFromHistory that keeps the layout of the bytes it replaces
restoreFromHistoryStaleLayout(state) ==
    LET current == At(state.history, state.historyIndex) IN
    [state EXCEPT
        !.bytes = Some(current),
        !.fileSize = Len(current),
        !.activeOffset =
            IF state.activeOffset >= Len(current)
            THEN (IF Len(current) > 0 THEN Len(current) - 1 ELSE 0)
            ELSE state.activeOffset]

\* restoreFromHistory that puts the caret on the last byte of what it restores
restoreFromHistoryCaretAtEnd(state) ==
    LET current == At(state.history, state.historyIndex) IN
    [state EXCEPT
        !.bytes = Some(current),
        !.fileSize = Len(current),
        !.layout = analyzeJpeg(current),
        !.activeOffset = IF Len(current) > 0 THEN Len(current) - 1 ELSE 0]

\* restoreFromHistory(state): the state it leaves
restoreFromHistory(state) ==
    LET current == At(state.history, state.historyIndex) IN
    [state EXCEPT
        !.bytes = Some(current),
        !.fileSize = Len(current),
        !.layout = analyzeJpeg(current),
        !.activeOffset =
            IF state.activeOffset >= Len(current)
            THEN (IF Len(current) > 0 THEN Len(current) - 1 ELSE 0)
            ELSE state.activeOffset]

\* loadNewFile(state, buffer, fileName)
loadNewFile(state, buffer, fileName) ==
    LET pushed == pushSnapshot(state, buffer, fileName) IN
    [state |-> [pushed EXCEPT !.activeOffset = 0], ret |-> null, calls |-> 0]

\* The mutators the host passes to applyEdit: the byte write of onEditByte,
\* draft[offset] = value & 0xff, and the span write of replace,
\* draft.set(replaceBytes, index).  A mutator is [kind, offset, data].
ApplyMutator(mutator, draft) ==
    IF mutator.kind = "byte"
    THEN SetAt(draft, mutator.offset, At(mutator.data, 0) % 256)
    ELSE [k \in 1..Len(draft) |->
            IF k - 1 >= mutator.offset /\ k - 1 < mutator.offset + Len(mutator.data)
            THEN At(mutator.data, k - 1 - mutator.offset)
            ELSE draft[k]]

\* applyEdit(state, mutator)
applyEdit(state, mutator) ==
    IF state.bytes = null
    THEN [state |-> state, ret |-> null, calls |-> 0]
    ELSE LET draft == ApplyMutator(mutator, Val(state.bytes)) IN
         [state |-> pushSnapshot(state, draft, state.fileName),
          ret |-> null, calls |-> 1]

\* applyInsert that clamps the offset into [0, length - 1]
applyInsertClampsToLast(state, offset, insert) ==
    IF state.bytes = null \/ Len(insert) = 0
    THEN [state |-> state, ret |-> null, calls |-> 0]
    ELSE LET src == Val(state.bytes)
             safeOffset == Max(0, Min(offset, Len(src) - 1))
             next == Slice(src, 0, safeOffset) \o insert
                       \o Slice(src, safeOffset, Len(src))
             pushed == pushSnapshot(state, next, state.fileName)
         IN [state |-> [pushed EXCEPT !.activeOffset = safeOffset],
             ret |-> null, calls |-> 0]

\* applyInsert that does not return early on an empty payload
applyInsertNoEmptyCheck(state, offset, insert) ==
    IF state.bytes = null
    THEN [state |-> state, ret |-> null, calls |-> 0]
    ELSE LET src == Val(state.bytes)
             safeOffset == Max(0, Min(offset, Len(src)))
             next == Slice(src, 0, safeOffset) \o insert
                       \o Slice(src, safeOffset, Len(src))
             pushed == pushSnapshot(state, next, state.fileName)
         IN [state |-> [pushed EXCEPT !.activeOffset = safeOffset],
             ret |-> null, calls |-> 0]

\* applyInsert(state, offset, insert)
applyInsert(state, offset, insert) ==
    IF state.bytes = null \/ Len(insert) = 0
    THEN [state |-> state, ret |-> null, calls |-> 0]
    ELSE LET src == Val(state.bytes)
             safeOffset == Max(0, Min(offset, Len(src)))
             next == Slice(src, 0, safeOffset) \o insert
                       \o Slice(src, safeOffset, Len(src))
             pushed == pushSnapshot(state, next, state.fileName)
         IN [state |-> [pushed EXCEPT !.activeOffset = safeOffset],
             ret |-> null, calls |-> 0]

\* canUndo(state)
canUndo(state) == state.historyIndex > 0

\* canRedo that refuses to redo from the first entry
canRedoAboveFirst(state) ==
    state.historyIndex > 0 /\ state.historyIndex < Len(state.history) - 1

\* canRedo(state)
canRedo(state) ==
    state.historyIndex >= 0 /\ state.historyIndex < Len(state.history) - 1

\* undo that moves the cursor without restoring the snapshot
undoNoRestore(state) ==
    IF ~canUndo(state)
    THEN [state |-> state, ret |-> Some(FALSE), calls |-> 0]
    ELSE [state |-> [state EXCEPT !.historyIndex = state.historyIndex - 1],
          ret |-> Some(TRUE), calls |-> 0]

\* undo that drops the history entries after the one it restores
undoDropsRedo(state) ==
    IF ~canUndo(state)
    THEN [state |-> state, ret |-> Some(FALSE), calls |-> 0]
    ELSE [state |-> restoreFromHistory(
                        [state EXCEPT !.historyIndex = state.historyIndex - 1,
                                      !.history = Slice(state.history, 0, state.historyIndex)]),
          ret |-> Some(TRUE), calls |-> 0]

\* undo(state)
undo(state) ==
    IF ~canUndo(state)
    THEN [state |-> state, ret |-> Some(FALSE), calls |-> 0]
    ELSE [state |-> restoreFromHistory(
                        [state EXCEPT !.historyIndex = state.historyIndex - 1]),
          ret |-> Some(TRUE), calls |-> 0]

\* redo(state)
redo(state) ==
    IF ~canRedo(state)
    THEN [state |-> state, ret |-> Some(FALSE), calls |-> 0]
    ELSE [state |-> restoreFromHistory(
                        [state EXCEPT !.historyIndex = state.historyIndex + 1]),
          ret |-> Some(TRUE), calls |-> 0]

\* setActiveOffset(state, offset)
setActiveOffset(state, offset) ==
    IF state.bytes = null \/ Len(Val(state.bytes)) = 0
    THEN [state |-> [state EXCEPT !.activeOffset = 0], ret |-> null, calls |-> 0]
    ELSE LET max == Len(Val(state.bytes)) - 1 IN
         [state |-> [state EXCEPT !.activeOffset = Max(0, Min(offset, max))],
          ret |-> null, calls |-> 0]

\* ------------------------------------------------------------------------
\* Helpers of the host page (imagehexeditor.ts).  A text is the sequence of
\* the UTF-16 code units of a string.
\* ------------------------------------------------------------------------
\* the region ids of REGION_DEFS, the tags the Jump To menu offers
RegionIds ==
    {"soi", "app", "dqt", "sof", "dht", "dri", "sos-header", "rst", "com", "eoi"}

\* textToBytes(text): arr[i] = text.charCodeAt(i) & 0xff
textToBytes(text) == [k \in 1..Len(text) |-> text[k] % 256]

\* arr[i] of a typed array: undefined (null) outside the array
Element(arr, i) == IF i >= 0 /\ i < Len(arr) THEN Some(At(arr, i)) ELSE null

\* the inner loop of indexOfBytes: no j with haystack[i + j] !== needle[j]
matchesAt(haystack, needle, i) ==
    \A j \in 0..(Len(needle) - 1) : Element(haystack, i + j) = Some(At(needle, j))

\* the outer loop of indexOfBytes, from i up to limit
RECURSIVE indexOfBytesLoop(_, _, _, _)
indexOfBytesLoop(haystack, needle, i, limit) ==
    IF i > limit THEN -1
    ELSE IF matchesAt(haystack, needle, i) THEN i
    ELSE indexOfBytesLoop(haystack, needle, i + 1, limit)

\* indexOfBytes whose loop stops one short of the limit (i < limit)
indexOfBytesBelowLimit(haystack, needle, fromIndex) ==
    indexOfBytesLoop(haystack, needle, fromIndex, Len(haystack) - Len(needle) - 1)

\* indexOfBytes(haystack, needle, fromIndex)
indexOfBytes(haystack, needle, fromIndex) ==
    indexOfBytesLoop(haystack, needle, fromIndex, Len(haystack) - Len(needle))

\* the loop of recomputeRegionOffsets that compares a region only with the
\* last region the menu offers
RECURSIVE recomputeLoopListedOnly(_, _, _, _)
recomputeLoopListedOnly(layout, i, prevRegion, nextOffsets) ==
    IF i >= Val(layout).length THEN nextOffsets
    ELSE LET region == classifyByte(i, layout) IN
         IF Some(region) = prevRegion \/ region \notin RegionIds
         THEN recomputeLoopListedOnly(layout, i + 1, prevRegion, nextOffsets)
         ELSE recomputeLoopListedOnly(layout, i + 1, Some(region),
                  [nextOffsets EXCEPT ![region] = Append(@, i)])

\* the loop of recomputeRegionOffsets: offset i starts a run when its region
\* differs from the one before, and is recorded when the menu offers the region
RECURSIVE recomputeLoop(_, _, _, _)
recomputeLoop(layout, i, prevRegion, nextOffsets) ==
    IF i >= Val(layout).length THEN nextOffsets
    ELSE LET region == classifyByte(i, layout) IN
         IF Some(region) = prevRegion
         THEN recomputeLoop(layout, i + 1, prevRegion, nextOffsets)
         ELSE recomputeLoop(layout, i + 1, Some(region),
                  IF region \in RegionIds
                  THEN [nextOffsets EXCEPT ![region] = Append(@, i)]
                  ELSE nextOffsets)

\* recomputeRegionOffsets(): the value it assigns to regionOffsets
recomputeRegionOffsets(state) ==
    LET nextOffsets == [id \in RegionIds |-> <<>>] IN
    IF state.bytes = null \/ state.layout = null
    THEN nextOffsets
    ELSE IF Val(state.layout).length = 0 THEN nextOffsets
    ELSE recomputeLoop(state.layout, 0, null, nextOffsets)

\* ensureRegionCounts(): the value it assigns to regionCounts
ensureRegionCounts(offsetsByRegion) ==
    [id \in RegionIds |-> Len(offsetsByRegion[id])]

\* the least and the greatest element of a non-empty set of integers
Least(S) == CHOOSE x \in S : \A y \in S : x <= y
Greatest(S) == CHOOSE x \in S : \A y \in S : x >= y

\* findOffsetForRegion whose comparisons are not strict (>=, <=)
findOffsetForRegionNotStrict(state, offsetsByRegion, region, dir) ==
    IF state.bytes = null THEN null
    ELSE LET offsets == offsetsByRegion[region]
             startOffset == state.activeOffset
             after == { i \in 0..(Len(offsets) - 1) : At(offsets, i) >= startOffset }
             before == { i \in 0..(Len(offsets) - 1) : At(offsets, i) <= startOffset }
         IN IF Len(offsets) = 0 THEN null
            ELSE IF Len(offsets) = 1 THEN Some(At(offsets, 0))
            ELSE IF dir = "next"
            THEN IF after # {} THEN Some(At(offsets, Least(after)))
                 ELSE Some(At(offsets, 0))
            ELSE IF before # {} THEN Some(At(offsets, Greatest(before)))
                 ELSE Some(At(offsets, Len(offsets) - 1))

\* findOffsetForRegion(region, dir), reading state and regionOffsets
findOffsetForRegion(state, offsetsByRegion, region, dir) ==
    IF state.bytes = null THEN null
    ELSE LET offsets == offsetsByRegion[region]
             startOffset == state.activeOffset
             after == { i \in 0..(Len(offsets) - 1) : At(offsets, i) > startOffset }
             before == { i \in 0..(Len(offsets) - 1) : At(offsets, i) < startOffset }
         IN IF Len(offsets) = 0 THEN null
            ELSE IF Len(offsets) = 1 THEN Some(At(offsets, 0))
            ELSE IF dir = "next"
            THEN IF after # {} THEN Some(At(offsets, Least(after)))
                 ELSE Some(At(offsets, 0))
            ELSE IF before # {} THEN Some(At(offsets, Greatest(before)))
                 ELSE Some(At(offsets, Len(offsets) - 1))

\* handleJump(region, dir): ret is the offset jumped to, null when it
\* returns without jumping
handleJump(state, offsetsByRegion, region, dir) ==
    LET stay == [state |-> state, ret |-> null, calls |-> 0] IN
    IF state.bytes = null \/ state.layout = null THEN stay
    ELSE IF ensureRegionCounts(offsetsByRegion)[region] = 0 THEN stay
    ELSE LET offset == findOffsetForRegion(state, offsetsByRegion, region, dir) IN
         IF offset = null THEN stay
         ELSE [state |-> setActiveOffset(state, Val(offset)).state,
               ret |-> offset, calls |-> 0]

\* the click handler of findBtn that replaces whenever a replacement is given
findReplaceAnyLength(state, findText, replaceText) ==
    LET stay == [state |-> state, ret |-> null, calls |-> 0] IN
    IF state.bytes = null THEN stay
    ELSE IF Len(Val(state.bytes)) = 0 \/ Len(findText) = 0 THEN stay
    ELSE LET findBytes == textToBytes(findText)
             index == indexOfBytes(Val(state.bytes), findBytes, 0)
             replaceBytes == textToBytes(replaceText)
             edited == applyEdit(state,
                           [kind |-> "set", offset |-> index, data |-> replaceBytes])
         IN IF index = -1 THEN [stay EXCEPT !.ret = Some(-1)]
            ELSE IF Len(replaceText) > 0
            THEN [state |-> setActiveOffset(edited.state, index).state,
                  ret |-> Some(index), calls |-> edited.calls]
            ELSE [state |-> setActiveOffset(state, index).state,
                  ret |-> Some(index), calls |-> 0]

\* the click handler of findBtn, with the texts the two prompts returned (a
\* cancelled prompt is the empty text): ret is the index indexOfBytes
\* returned, null when the handler returns before searching, and calls
\* counts the invocations of the replace mutator
findReplace(state, findText, replaceText) ==
    LET stay == [state |-> state, ret |-> null, calls |-> 0] IN
    IF state.bytes = null THEN stay
    ELSE IF Len(Val(state.bytes)) = 0 \/ Len(findText) = 0 THEN stay
    ELSE LET findBytes == textToBytes(findText)
             index == indexOfBytes(Val(state.bytes), findBytes, 0)
             replaceBytes == textToBytes(replaceText)
             edited == applyEdit(state,
                           [kind |-> "set", offset |-> index, data |-> replaceBytes])
         IN IF Len(findBytes) = 0 THEN stay
            ELSE IF index = -1 THEN [stay EXCEPT !.ret = Some(-1)]
            ELSE IF Len(replaceText) > 0 /\ Len(replaceBytes) = Len(findBytes)
            THEN [state |-> setActiveOffset(edited.state, index).state,
                  ret |-> Some(index), calls |-> edited.calls]
            ELSE [state |-> setActiveOffset(state, index).state,
                  ret |-> Some(index), calls |-> 0]

\* ------------------------------------------------------------------------
\* The hex grid (hexGrid.ts) and the callbacks the host page gives it.  A
\* grid is [bytes, renderLength, activeOffset, pendingNibble]; the layout it
\* also keeps only colours the cells.  A page is the grid, the EditorState
\* and the region index of the host, with the edits (onEditByte calls) and
\* the moves (onMoveCaret calls) the grid emitted during the event at hand.
\* ------------------------------------------------------------------------
\* the grid after createHexGrid
createHexGrid ==
    [bytes |-> null, renderLength |-> 0, activeOffset |-> 0, pendingNibble |-> null]

\* ensureActiveOffset()
ensureActiveOffset(grid) ==
    IF grid.bytes = null \/ grid.renderLength = 0
    THEN [grid EXCEPT !.activeOffset = 0]
    ELSE [grid EXCEPT !.activeOffset =
              IF @ < 0 THEN 0
              ELSE IF @ >= grid.renderLength THEN grid.renderLength - 1 ELSE @]

\* grid.setData(nextBytes, nextLayout, nextActiveOffset)
setData(grid, nextBytes, nextActiveOffset) ==
    LET renderLength == IF nextBytes = null THEN 0 ELSE Len(Val(nextBytes))
        clampedOffset == Max(0, Min(nextActiveOffset, Max(0, renderLength - 1)))
        placed == ensureActiveOffset(
                      [grid EXCEPT !.bytes = nextBytes,
                                   !.renderLength = renderLength,
                                   !.activeOffset = clampedOffset])
    IN [placed EXCEPT !.pendingNibble = null]

\* grid.setActiveOffset(offset, centerIntoView)
gridSetActiveOffset(grid, offset) ==
    ensureActiveOffset([grid EXCEPT !.activeOffset = offset])

\* schedulePreviewUpdate() without the previewScheduled guard
schedulePreviewUpdateEveryTime(preview) ==
    [preview EXCEPT !.scheduled = TRUE, !.timers = @ + 1]

\* schedulePreviewUpdate()
schedulePreviewUpdate(preview) ==
    IF preview.scheduled THEN preview
    ELSE [preview EXCEPT !.scheduled = TRUE, !.timers = @ + 1]

\* updatePreview(): the blob is made of state.bytes as they are now
updatePreview(preview, state) ==
    IF state.bytes = null \/ Len(Val(state.bytes)) = 0
    THEN [preview EXCEPT !.url = null]
    ELSE [preview EXCEPT !.url = state.bytes]

\* syncView() of the host: grid.setData, recomputeRegionOffsets and
\* schedulePreviewUpdate
syncView(page) ==
    [page EXCEPT !.grid = setData(page.grid, page.state.bytes, page.state.activeOffset),
                 !.offsets = recomputeRegionOffsets(page.state),
                 !.preview = schedulePreviewUpdate(page.preview)]

\* opts.onEditByte(offset, value) of the host: applyEdit, then syncView
onEditByte(page, offset, value) ==
    LET edited == applyEdit(page.state,
                            [kind |-> "byte", offset |-> offset, data |-> <<value>>])
    IN syncView([page EXCEPT !.state = edited.state,
                             !.edits = Append(@, [offset |-> offset, value |-> value])])

\* an onMoveCaret that leaves the EditorState as it is
onMoveCaretUnheard(page, offset) ==
    [page EXCEPT !.moves = Append(@, offset)]

\* opts.onMoveCaret(offset) of the host: setActiveOffset
onMoveCaret(page, offset) ==
    [page EXCEPT !.state = setActiveOffset(page.state, offset).state,
                 !.moves = Append(@, offset)]

\* moveCaret(delta)
moveCaret(page, delta) ==
    IF page.grid.bytes = null \/ page.grid.renderLength = 0 THEN page
    ELSE LET moved == [page.grid EXCEPT
                          !.pendingNibble = null,
                          !.activeOffset =
                              Max(0, Min(@ + delta, page.grid.renderLength - 1))]
         IN onMoveCaret([page EXCEPT !.grid = moved], moved.activeOffset)

\* isAutoAdvanceOnEdit(): the host passes no isAutoAdvanceEnabled
isAutoAdvanceOnEdit == TRUE

\* the one-character keys parseHexKey accepts and their values
HexKeyValues ==
    ("0" :> 0) @@ ("1" :> 1) @@ ("2" :> 2) @@ ("3" :> 3) @@ ("4" :> 4) @@
    ("5" :> 5) @@ ("6" :> 6) @@ ("7" :> 7) @@ ("8" :> 8) @@ ("9" :> 9) @@
    ("a" :> 10) @@ ("b" :> 11) @@ ("c" :> 12) @@ ("d" :> 13) @@ ("e" :> 14) @@
    ("f" :> 15) @@ ("A" :> 10) @@ ("B" :> 11) @@ ("C" :> 12) @@ ("D" :> 13) @@
    ("E" :> 14) @@ ("F" :> 15)

\* parseHexKey(key)
parseHexKey(key) ==
    IF key \in DOMAIN HexKeyValues THEN Some(HexKeyValues[key]) ELSE null

\* the value Alt+ArrowUp/ArrowDown writes, without the wrap to one byte
nextByteValueUnmasked(current, delta) == current + delta

\* the value Alt+ArrowUp/ArrowDown writes: (current + delta) & 0xff
nextByteValue(current, delta) == (current + delta) % 256

\* handleKeyDown(ev), ev = [key, altKey]
handleKeyDown(page, key, altKey) ==
    LET grid == page.grid
        cancelled == [page EXCEPT !.grid.pendingNibble = null]
        hex == parseHexKey(key)
    IN
    IF grid.bytes = null \/ Len(Val(grid.bytes)) = 0 THEN page
    ELSE IF key \in {"ArrowUp", "ArrowDown"} /\ altKey
    THEN LET current == At(Val(grid.bytes), grid.activeOffset)
             delta == IF key = "ArrowUp" THEN 1 ELSE -1
         IN onEditByte(cancelled, grid.activeOffset, nextByteValue(current, delta))
    ELSE IF key = "ArrowLeft" THEN moveCaret(page, -1)
    ELSE IF key = "ArrowRight" THEN moveCaret(page, 1)
    ELSE IF key = "ArrowUp" THEN moveCaret(page, -16)
    ELSE IF key = "ArrowDown" THEN moveCaret(page, 16)
    ELSE IF key = "PageUp" THEN moveCaret(page, -16 * 8)
    ELSE IF key = "PageDown" THEN moveCaret(page, 16 * 8)
    ELSE IF key = "Home"
    THEN onMoveCaret([cancelled EXCEPT !.grid.activeOffset = 0], 0)
    ELSE IF key = "End"
    THEN LET end == Len(Val(grid.bytes)) - 1 IN
         onMoveCaret([cancelled EXCEPT !.grid.activeOffset = end], end)
    ELSE IF key = "Backspace"
    THEN IF grid.pendingNibble # null THEN cancelled
         ELSE onEditByte(page, grid.activeOffset, 0)
    ELSE IF hex # null
    THEN IF grid.pendingNibble = null
         THEN [page EXCEPT !.grid.pendingNibble = hex]
         ELSE LET nextValue == (Val(grid.pendingNibble) * 16 + Val(hex)) % 256
                  edited == onEditByte(cancelled, grid.activeOffset, nextValue)
              IN IF isAutoAdvanceOnEdit THEN moveCaret(edited, 1) ELSE edited
    ELSE page

\* the click listener of the grid, on the cell of the byte at offset
handleClick(page, offset) ==
    IF page.grid.bytes = null THEN page
    ELSE onMoveCaret([page EXCEPT !.grid.pendingNibble = null,
                                  !.grid.activeOffset = offset], offset)

\* reader.onload of handleFile: loadNewFile, then syncView
pageLoad(page, buffer, fileName) ==
    syncView([page EXCEPT !.state = loadNewFile(page.state, buffer, fileName).state])

\* handleJump of the host with the grid.setActiveOffset that follows it
pageJump(page, region, dir) ==
    LET r == handleJump(page.state, page.offsets, region, dir) IN
    IF r.ret = null THEN page
    ELSE [page EXCEPT !.state = r.state,
                      !.grid = gridSetActiveOffset(page.grid, Val(r.ret))]

\* ------------------------------------------------------------------------
\* The rest of the host page: the debounced preview, the file reads in
\* flight and the toolbar buttons.  The preview is [scheduled, timers, url]:
\* the flag previewScheduled, the number of timeouts of
\* schedulePreviewUpdate that have not fired yet, and the bytes of the blob
\* behind previewUrl (null without one).  A file is [name, type, bytes].
\* ------------------------------------------------------------------------
\* the cap of handleFile, scaled down from 8 * 1024 * 1024 to a few bytes
MAX_FILE_BYTES == 5

\* file.type.startsWith('image/') holds for these types
ImageTypes == {"image/jpeg", "image/png"}

\* handleFile(file) up to reader.readAsArrayBuffer(file): the reads in flight
handleFile(pending, file) ==
    IF file.type \notin ImageTypes THEN pending
    ELSE IF Len(file.bytes) > MAX_FILE_BYTES THEN pending
    ELSE Append(pending, file)

\* the click handler of insertBtn; text is what the prompt returned
insertText(page, text) ==
    IF page.state.bytes = null THEN page
    ELSE IF Len(text) = 0 THEN page
    ELSE LET insertBytes == textToBytes(text)
             offset == page.state.activeOffset
             inserted == applyInsert(page.state, offset, insertBytes).state
         IN IF Len(insertBytes) = 0 THEN page
            ELSE syncView([page EXCEPT
                     !.state = setActiveOffset(inserted, offset).state])

\* the click handler of undoBtn
undoClick(page) ==
    LET r == undo(page.state) IN
    IF r.ret = Some(TRUE) THEN syncView([page EXCEPT !.state = r.state]) ELSE page

\* the click handler of redoBtn
redoClick(page) ==
    LET r == redo(page.state) IN
    IF r.ret = Some(TRUE) THEN syncView([page EXCEPT !.state = r.state]) ELSE page

\* the click handler of findBtn; the texts are what the prompts returned
findClick(page, findText, replaceText) ==
    LET r == findReplace(page.state, findText, replaceText) IN
    IF r.ret = null \/ r.ret = Some(-1) THEN page
    ELSE IF r.calls > 0 THEN syncView([page EXCEPT !.state = r.state])
    ELSE [page EXCEPT !.state = r.state,
                      !.grid = gridSetActiveOffset(page.grid, Val(r.ret))]

\* the callback of the timeout of schedulePreviewUpdate
timeoutFires(preview, state) ==
    updatePreview([preview EXCEPT !.scheduled = FALSE, !.timers = @ - 1], state)

\* ------------------------------------------------------------------------
\* The host page (imagehexeditor.ts) owns one EditorState and calls the
\* operations one at a time.  state is that object.  last records the last
\* call: the operation, its arguments, what it returned, how often it invoked
\* the mutator, and the state it started from.  prev records of the call
\* before it the operation, what it returned, the bytes and historyIndex it
\* started from, and for an undo the activeOffset it started from.
\* ------------------------------------------------------------------------
VARIABLES state, last, prev

\* One run of analyzeJpeg, iteration by iteration.  analysis is [bytes,
\* regions, pos, pc, layout]: the input, the regions array, the position
\* (pos of analyzeJpeg, i of consumeScanData), the loop in control and the
\* value returned.  iter records the last iteration: its loop, the branch it
\* took and the analysis it started from.  stuffed is the set of positions at
\* which consumeScanData consumed a stuffed pair.
VARIABLES analysis, iter, stuffed

\* regionOffsets is the host's table of the run starts of each region of the
\* Jump To menu, assigned by recomputeRegionOffsets whenever a handler calls
\* syncView.  In last, a jump records its direction in kind and its region in
\* name; a find records the replacement text in data and the search text in
\* name.
VARIABLES regionOffsets

\* One call of indexOfBytes: search is [haystack, needle, fromIndex, pc,
\* result].
VARIABLES search

\* created records, for each entry of state.history, the fileName that was
\* current when pushSnapshot created the entry; it is kept in the runs of
\* SpecNames and stays empty in the others.
VARIABLES created

\* grid is the hex grid of the page, [bytes, renderLength, activeOffset,
\* pendingNibble]; events records the last event the grid handled and the
\* one before it.
VARIABLES grid, events

\* recognized holds, for each marker or segment the run of analyzeJpeg tagged
\* with a tag of the Jump To menu, the offset of its FF and the tag.
VARIABLES recognized

\* preview is the debounced preview of the page; reads holds the files whose
\* FileReader has not called onload yet (pending, in the order they were
\* selected) and the names of the files handleFile accepted (selected).
VARIABLES preview, reads

pageVars == <<preview, reads>>

editorVars == <<state, last, prev, regionOffsets, created>>
classifierVars == <<analysis, iter, stuffed, recognized>>
gridVars == <<grid, events>>

vars == <<state, last, prev, analysis, iter, stuffed, regionOffsets, search,
          created, grid, events, recognized, preview, reads>>

SearchIdle ==
    [haystack |-> <<>>, needle |-> <<>>, fromIndex |-> 0, pc |-> "idle", result |-> -1]

AnalysisIdle ==
    [bytes |-> <<>>, regions |-> <<>>, pos |-> 0, pc |-> "idle", layout |-> null]

NoIteration == [loop |-> "none", branch |-> "none", pre |-> AnalysisIdle]

ClassifierIdle ==
    /\ analysis = AnalysisIdle
    /\ iter = NoIteration
    /\ stuffed = {}
    /\ recognized = {}

NoEvent ==
    [kind |-> "none", key |-> "", altKey |-> FALSE, edits |-> <<>>, moves |-> <<>>,
     pre |-> createHexGrid, typed |-> null]

GridIdle ==
    /\ grid = createHexGrid
    /\ events = NoEvent

\* the page after init(): its closing syncView() has scheduled the first
\* preview update, and no file has been selected
PageIdle ==
    /\ preview = [scheduled |-> TRUE, timers |-> 1, url |-> null]
    /\ reads = [pending |-> <<>>, selected |-> <<>>]

EditorIdle ==
    /\ state = createEmptyState
    /\ last = [op |-> "none", kind |-> "", offset |-> 0, data |-> <<>>, name |-> null,
               ret |-> null, calls |-> 0, pre |-> createEmptyState]
    /\ prev = [op |-> "none", ret |-> null, bytes |-> null, historyIndex |-> -1,
               activeOffset |-> 0]
    /\ regionOffsets = recomputeRegionOffsets(createEmptyState)
    /\ created = <<>>

\* the files the user can pick: a minimal JPEG (SOI, EOI) and an empty file
Files ==
    { [name |-> "a.jpg", bytes |-> <<255, 216, 255, 217>>],
      [name |-> "b.jpg", bytes |-> <<>>] }

\* byte writes draft[offset] = value & 0xff
ByteMutators ==
    { [kind |-> "byte", offset |-> 1, data |-> <<0>>],
      [kind |-> "byte", offset |-> 3, data |-> <<474>>] }

\* span writes draft.set(data, offset); the host passes only spans that lie
\* inside the buffer (the offset is a match found by indexOfBytes)
SetMutators ==
    { [kind |-> "set", offset |-> 2, data |-> <<255, 217>>] }

Mutators == ByteMutators \cup SetMutators

InsertOffsets == {-1, 2, MaxLen + 1}
InsertPayloads == { <<>>, <<0, 255>> }
CaretOffsets == {-1, 3, MaxLen + 2}

NoCall == [op |-> "none", kind |-> "", offset |-> 0, data |-> <<>>, name |-> null,
           ret |-> null, calls |-> 0, pre |-> createEmptyState]

Call(op, kind, offset, data, name, result) ==
    [op |-> op, kind |-> kind, offset |-> offset, data |-> data, name |-> name,
     ret |-> result.ret, calls |-> result.calls, pre |-> state]

\* the call reached pushSnapshot: a load, an edit or a replace of a loaded
\* buffer, an insert of a non-empty payload into a loaded buffer
Pushes(call) ==
    \/ call.op = "load"
    \/ call.op = "edit" /\ call.pre.bytes # null
    \/ call.op = "insert" /\ call.pre.bytes # null /\ Len(call.data) > 0
    \/ call.op = "find" /\ call.calls > 0

\* created after a pushSnapshot that took the state from pre to post
CreatedAfterPush(names, pre, post) ==
    Append(IF pre.historyIndex >= 0 /\ pre.historyIndex < Len(names) - 1
           THEN Slice(names, 0, pre.historyIndex + 1)
           ELSE names,
           post.fileName)

\* Synced that leaves out undo and redo
SyncedWithoutUndo(call) ==
    \/ call.op \in {"load", "edit"}
    \/ call.op = "insert" /\ call.pre.bytes # null /\ Len(call.data) > 0
    \/ call.op = "find" /\ call.calls > 0

\* the handler of the call goes on to syncView(): after a load and a byte
\* edit always, after an insert and a replace that were not refused, after an
\* undo and a redo that returned true
Synced(call) ==
    \/ call.op \in {"load", "edit"}
    \/ call.op = "insert" /\ call.pre.bytes # null /\ Len(call.data) > 0
    \/ call.op \in {"undo", "redo"} /\ call.ret = Some(TRUE)
    \/ call.op = "find" /\ call.calls > 0

Called(call, result) ==
    /\ state' = result.state
    /\ last' = call
    /\ prev' = [op |-> last.op, ret |-> last.ret,
                bytes |-> last.pre.bytes, historyIndex |-> last.pre.historyIndex,
                activeOffset |-> IF last.op = "undo" THEN last.pre.activeOffset ELSE 0]
    /\ regionOffsets' = IF Synced(call) THEN recomputeRegionOffsets(result.state)
                        ELSE regionOffsets
    /\ UNCHANGED <<classifierVars, search, gridVars, pageVars>>

\* a call of a run that does not keep the names of the history entries
Step(call, result) ==
    /\ Called(call, result)
    /\ UNCHANGED created

\* a call of a run that keeps them
StepNamed(call, result) ==
    /\ Called(call, result)
    /\ created' = IF Pushes(call) THEN CreatedAfterPush(created, state, result.state)
                  ELSE created

Init ==
    /\ state = createEmptyState
    /\ last = NoCall
    /\ prev = [op |-> "none", ret |-> null, bytes |-> null, historyIndex |-> -1,
               activeOffset |-> 0]
    /\ regionOffsets = recomputeRegionOffsets(createEmptyState)
    /\ created = <<>>
    /\ ClassifierIdle
    /\ search = SearchIdle
    /\ GridIdle
    /\ PageIdle

\* a push may not grow the history beyond MaxHistory
PushFits == state.historyIndex + 2 <= MaxHistory

LoadNewFile ==
    \E f \in Files :
        /\ PushFits
        /\ LET r == loadNewFile(state, f.bytes, Some(f.name)) IN
           Step(Call("load", "", 0, f.bytes, Some(f.name), r), r)

ApplyEdit ==
    \E m \in Mutators :
        /\ state.bytes # null => PushFits
        /\ (state.bytes # null /\ m.kind = "set")
               => m.offset + Len(m.data) <= Len(Val(state.bytes))
        /\ LET r == applyEdit(state, m) IN
           Step(Call("edit", m.kind, m.offset, m.data, null, r), r)

ApplyInsert ==
    \E o \in InsertOffsets, ins \in InsertPayloads :
        /\ (state.bytes # null /\ Len(ins) > 0)
               => (PushFits /\ Len(Val(state.bytes)) + Len(ins) <= MaxLen)
        /\ LET r == applyInsert(state, o, ins) IN
           Step(Call("insert", "", o, ins, null, r), r)

Undo ==
    LET r == undo(state) IN Step(Call("undo", "", 0, <<>>, null, r), r)

Redo ==
    LET r == redo(state) IN Step(Call("redo", "", 0, <<>>, null, r), r)

SetActiveOffset ==
    \E o \in CaretOffsets :
        LET r == setActiveOffset(state, o) IN
        Step(Call("setActiveOffset", "", o, <<>>, null, r), r)

Next ==
    \/ LoadNewFile
    \/ ApplyEdit
    \/ ApplyInsert
    \/ Undo
    \/ Redo
    \/ SetActiveOffset

Spec == Init /\ [][Next]_vars

\* ------------------------------------------------------------------------
\* The same calls with the name under which each history entry was created
\* kept beside the history: files are loaded, bytes edited, and the user
\* undoes and redoes.
\* ------------------------------------------------------------------------
LoadNamedFile ==
    \E f \in Files :
        /\ PushFits
        /\ LET r == loadNewFile(state, f.bytes, Some(f.name)) IN
           StepNamed(Call("load", "", 0, f.bytes, Some(f.name), r), r)

EditNamedFile ==
    \E m \in ByteMutators :
        /\ state.bytes # null /\ Len(Val(state.bytes)) > m.offset
        /\ PushFits
        /\ LET r == applyEdit(state, m) IN
           StepNamed(Call("edit", m.kind, m.offset, m.data, null, r), r)

UndoNamed ==
    LET r == undo(state) IN StepNamed(Call("undo", "", 0, <<>>, null, r), r)

RedoNamed ==
    LET r == redo(state) IN StepNamed(Call("redo", "", 0, <<>>, null, r), r)

NamesNext == LoadNamedFile \/ EditNamedFile \/ UndoNamed \/ RedoNamed

SpecNames == Init /\ [][NamesNext]_vars

\* ------------------------------------------------------------------------
\* The page handlers around the editor: file load, undo, redo, Jump To and
\* Find / Replace on one EditorState.
\* ------------------------------------------------------------------------
\* a JPEG of 36 bytes: SOI, 3 plain bytes, comments at 5, 18 and 29,
\* application segments at 10 and 23 with the payloads "JFIF" and "JF", EOI
\* at 34
HostFiles ==
    { [name |-> "nav.jpg",
       bytes |-> <<255, 216, 0, 0, 0>>
                   \o <<255, 254, 0, 3, 74>>
                   \o <<255, 224, 0, 6, 74, 70, 73, 70>>
                   \o <<255, 254, 0, 3, 70>>
                   \o <<255, 224, 0, 4, 74, 70>>
                   \o <<255, 254, 0, 3, 0>>
                   \o <<255, 217>>] }

\* the rows of the Jump To menu that are clicked: a region with one run, one
\* with three, one with two and one with none
JumpRegions == {"soi", "com", "app", "dqt"}

\* the buttons of a row
JumpDirections == {"prev", "next"}

\* texts typed into the Find prompt: a text that textToBytes turns into "JF"
\* (its first code unit is 0x14A), and "Z"
FindTexts == { <<330, 70>>, <<90>> }

\* texts typed into the Replace prompt: nothing, "X", "XY"
ReplaceTexts == { <<>>, <<88>>, <<88, 89>> }

HandleFile ==
    \E f \in HostFiles :
        /\ PushFits
        /\ LET r == loadNewFile(state, f.bytes, Some(f.name)) IN
           Step(Call("load", "", 0, f.bytes, Some(f.name), r), r)

HandleJump ==
    \E region \in JumpRegions, dir \in JumpDirections :
        LET r == handleJump(state, regionOffsets, region, dir) IN
        Step(Call("jump", dir, 0, <<>>, Some(region), r), r)

FindReplace ==
    \E findText \in FindTexts, replaceText \in ReplaceTexts :
        LET r == findReplace(state, findText, replaceText) IN
        /\ Len(r.state.history) <= MaxHistory
        /\ Step(Call("find", "", 0, replaceText, Some(findText), r), r)

HostNext ==
    \/ HandleFile
    \/ Undo
    \/ Redo
    \/ HandleJump
    \/ FindReplace

SpecHost == Init /\ [][HostNext]_vars

\* ------------------------------------------------------------------------
\* indexOfBytes on its own: one call on a haystack, a needle and a start
\* index.
\* ------------------------------------------------------------------------
\* the longest haystack and the longest needle
MaxHaystack == 4
MaxNeedle == 2

\* the byte values haystacks and needles are made of
SearchBytes == {70, 74}

\* the sequences over S of a length from lo to hi
SeqsOf(S, lo, hi) == UNION { [1..n -> S] : n \in lo..hi }

SearchInit ==
    /\ EditorIdle
    /\ ClassifierIdle
    /\ GridIdle
    /\ PageIdle
    /\ search \in { [haystack |-> h, needle |-> n, fromIndex |-> f,
                     pc |-> "call", result |-> -1] :
                       h \in SeqsOf(SearchBytes, 0, MaxHaystack),
                       n \in SeqsOf(SearchBytes, 1, MaxNeedle),
                       f \in -1..(MaxHaystack + 1) }

IndexOfBytes ==
    /\ search.pc = "call"
    /\ search' = [search EXCEPT
                      !.result = indexOfBytes(search.haystack, search.needle,
                                              search.fromIndex),
                      !.pc = "done"]
    /\ UNCHANGED <<editorVars, classifierVars, gridVars, pageVars>>

SearchNext == IndexOfBytes

SpecSearch == SearchInit /\ [][SearchNext]_vars

\* ------------------------------------------------------------------------
\* The classifier on its own: analyzeJpeg runs on one input, an iteration
\* at a time.
\* ------------------------------------------------------------------------
\* most chunks an input is built from
MaxChunks == 3

\* the pieces inputs are built from: plain bytes, a lone prefix, a stuffed
\* pair, the two-byte markers, and segments with valid, too small and
\* overrunning lengths
Chunks ==
    { <<0>>, <<255>>, <<255, 0>>,
      <<255, 208>>, <<255, 217>>, <<255, 216>>, <<255, 1>>,
      <<255, 224, 0, 2>>, <<255, 224, 0, 9>>,
      <<255, 219, 0, 1>>,
      <<255, 192, 0, 2>>, <<255, 192, 0, 7, 1, 2, 3, 4, 5>>,
      <<255, 196, 0, 3, 7>>,
      <<255, 221, 0, 2>>,
      <<255, 218, 0, 2>>,
      <<255, 254, 0, 2>>,
      <<255, 200, 0, 2>> }

\* concatenations of at most k chunks
RECURSIVE Bodies(_)
Bodies(k) ==
    IF k = 0 THEN { <<>> }
    ELSE Bodies(k - 1) \cup { b \o c : b \in Bodies(k - 1), c \in Chunks }

\* inputs analyzeJpeg rejects: too short, or not starting with FF D8
RejectedInputs ==
    { <<>>, <<255>>, <<255, 216>>, <<255, 216, 255>>,
      <<255, 217, 255, 217>>, <<0, 216, 255, 217>>, <<216, 255, 255, 217, 0>>,
      <<255, 255, 216, 255, 217>> }

\* SOI, APP0 of length 16 with 14 filler bytes, DQT of length 5 with 3
\* bytes, EOI: with JFIF-like filler, and with filler that holds marker bytes
ScenarioInputs ==
    { <<255, 216, 255, 224, 0, 16>> \o filler \o <<255, 219, 0, 5>> \o table
          \o <<255, 217>> :
        filler \in { <<74, 70, 73, 70, 0, 1, 1, 0, 0, 1, 0, 1, 0, 0>>,
                     <<255, 217, 255, 218, 0, 2, 255, 0, 255, 255, 255, 216, 0, 255>> },
        table \in { <<0, 16, 11>>, <<255, 217, 255>> } }

Inputs ==
    RejectedInputs \cup ScenarioInputs
        \cup { <<255, 216>> \o b : b \in Bodies(MaxChunks) }

ClassifyInit ==
    /\ EditorIdle
    /\ analysis \in { [AnalysisIdle EXCEPT !.bytes = b, !.pc = "start"] : b \in Inputs }
    /\ iter = NoIteration
    /\ stuffed = {}
    /\ recognized = {}
    /\ search = SearchIdle
    /\ GridIdle
    /\ PageIdle

\* the branches of the two loops that tag a marker or a segment with a tag of
\* the Jump To menu, and the tag
BranchTag ==
    ("eoi" :> "eoi") @@ ("soi" :> "soi") @@ ("rst" :> "rst") @@
    ("restart" :> "rst") @@ ("app" :> "app") @@ ("dqt" :> "dqt") @@
    ("sof" :> "sof") @@ ("dht" :> "dht") @@ ("dri" :> "dri") @@
    ("sos" :> "sos-header") @@ ("com" :> "com")

\* one iteration: the analysis moves to the result r of the iteration
Iterate(loop, r) ==
    /\ analysis' = IF r.pc = "return"
                   THEN analyzeReturn([analysis EXCEPT !.regions = r.regions, !.pos = r.pos])
                   ELSE [analysis EXCEPT !.regions = r.regions, !.pos = r.pos, !.pc = r.pc]
    /\ iter' = [loop |-> loop, branch |-> r.branch, pre |-> analysis]
    /\ stuffed' = IF r.branch = "stuffed" THEN stuffed \cup {analysis.pos} ELSE stuffed
    /\ recognized' = IF r.branch \in DOMAIN BranchTag
                     THEN recognized \cup {[offset |-> analysis.pos,
                                            tag |-> BranchTag[r.branch]]}
                     ELSE recognized
    /\ UNCHANGED <<editorVars, search, gridVars, pageVars>>

AnalyzeStart ==
    /\ analysis.pc = "start"
    /\ analysis' = analyzeStart(analysis.bytes)
    /\ iter' = [loop |-> "start", branch |-> "start", pre |-> analysis]
    /\ recognized' = IF analysis'.pc = "outer"
                     THEN {[offset |-> 0, tag |-> "soi"]} ELSE {}
    /\ UNCHANGED <<stuffed, editorVars, search, gridVars, pageVars>>

AnalyzeIteration ==
    /\ analysis.pc = "outer"
    /\ Iterate("outer", analyzeIteration(analysis.bytes, analysis.regions, analysis.pos))

ConsumeScanIteration ==
    /\ analysis.pc = "scan"
    /\ Iterate("scan", consumeScanIteration(analysis.bytes, analysis.regions, analysis.pos))

ConsumeTrailIteration ==
    /\ analysis.pc = "trail"
    /\ Iterate("trail", consumeTrailIteration(analysis.bytes, analysis.regions, analysis.pos))

ClassifyNext ==
    \/ AnalyzeStart
    \/ AnalyzeIteration
    \/ ConsumeScanIteration
    \/ ConsumeTrailIteration

SpecClassify == ClassifyInit /\ [][ClassifyNext]_vars

\* analyzeJpeg is synchronous code: once called it runs its iterations one
\* after the other until it returns
SpecClassifyLive == ClassifyInit /\ [][ClassifyNext]_vars /\ WF_vars(ClassifyNext)

\* ------------------------------------------------------------------------
\* The region index over every classifier input: the user picks one file per
\* run, and reader.onload loads it and calls syncView().
\* ------------------------------------------------------------------------
\* the files: the classifier inputs of less than MaxChunks chunks
IndexInputs ==
    RejectedInputs \cup ScenarioInputs
        \cup { <<255, 216>> \o b : b \in Bodies(MaxChunks - 1) }

HandleInputFile ==
    \E b \in IndexInputs :
        /\ state.bytes = null
        /\ LET r == loadNewFile(state, b, Some("input.jpg")) IN
           Step(Call("load", "", 0, b, Some("input.jpg"), r), r)

SpecIndex == Init /\ [][HandleInputFile]_vars

\* ------------------------------------------------------------------------
\* The hex grid and the host page together: the user picks the file, types
\* into the focused grid, clicks a cell, or picks a row of the Jump To menu
\* and moves the focus back to the grid with the keyboard.  Each event runs
\* its handler to completion, callbacks included.  events records the last
\* event: its kind, the key, the edits and moves the grid emitted, the grid
\* it started from, and typed, the first hex digit that was typed and not
\* yet followed by another handled key, click or load, with the caret it was
\* typed at.
\* ------------------------------------------------------------------------
MaxGridHistory == 2

GridFiles ==
    { [name |-> "grid.jpg", bytes |-> <<255, 216, 0, 255, 217>>] }

\* keys parseHexKey accepts, the keys handleKeyDown names, a key it ignores
GridKeys ==
    {"4", "c", "ArrowLeft", "ArrowRight", "ArrowUp", "ArrowDown", "PageUp",
     "PageDown", "Home", "End", "Backspace", "Shift"}

\* the keys handleKeyDown moves the caret for when Alt is not held
CaretKeys ==
    {"ArrowLeft", "ArrowRight", "ArrowUp", "ArrowDown", "PageUp", "PageDown",
     "Home", "End"}

GridJumpRegions == {"soi", "eoi"}

GridPushFits == state.historyIndex + 2 <= MaxGridHistory

Page == [grid |-> grid, state |-> state, offsets |-> regionOffsets,
         preview |-> preview, edits |-> <<>>, moves |-> <<>>]

\* the key of the event is a hex digit typed into a grid that holds bytes
HexTyped(e) ==
    /\ e.kind = "key"
    /\ parseHexKey(e.key) # null
    /\ e.pre.bytes # null /\ e.pre.renderLength > 0

\* typed after the event e
TypedAfter(e) ==
    IF HexTyped(e) /\ e.typed = null
    THEN Some([offset |-> e.pre.activeOffset, value |-> Val(parseHexKey(e.key))])
    ELSE IF e.kind \in {"none", "jump"} THEN e.typed
    ELSE IF e.kind = "key" /\ parseHexKey(e.key) = null
             /\ e.key \notin CaretKeys \cup {"Backspace"} THEN e.typed
    ELSE null

\* the event ran its handler and took the page to next
GridEvent(kind, key, altKey, next) ==
    /\ Len(next.edits) > 0 => GridPushFits
    /\ grid' = next.grid
    /\ state' = next.state
    /\ regionOffsets' = next.offsets
    /\ UNCHANGED created
    /\ events' = [kind |-> kind, key |-> key, altKey |-> altKey,
                  edits |-> next.edits, moves |-> next.moves,
                  pre |-> grid, typed |-> TypedAfter(events)]
    /\ preview' = next.preview
    /\ UNCHANGED <<last, prev, classifierVars, search, reads>>

GridHandleFile ==
    \E f \in GridFiles :
        /\ GridPushFits
        /\ GridEvent("load", "", FALSE, pageLoad(Page, f.bytes, Some(f.name)))

KeyDown ==
    \E key \in GridKeys, altKey \in BOOLEAN :
        /\ altKey => key \in {"ArrowUp", "ArrowDown"}
        /\ GridEvent("key", key, altKey, handleKeyDown(Page, key, altKey))

Click ==
    \E offset \in 0..(grid.renderLength - 1) :
        GridEvent("click", "", FALSE, handleClick(Page, offset))

Jump ==
    \E region \in GridJumpRegions, dir \in JumpDirections :
        GridEvent("jump", dir, FALSE, pageJump(Page, region, dir))

GridNext == GridHandleFile \/ KeyDown \/ Click \/ Jump

SpecGrid == Init /\ [][GridNext]_vars

\* ------------------------------------------------------------------------
\* The whole page: the user selects files, whose reads complete later in any
\* order, types into the grid, clicks a cell, uses Jump To, Find / Replace,
\* Insert, Undo and Redo.  Each handler runs to completion.
\* ------------------------------------------------------------------------
MaxPageHistory == 2

\* a file that is exactly as long as the cap, one that exceeds it and one
\* that is no image
PageFiles ==
    { [name |-> "b.jpg", type |-> "image/jpeg", bytes |-> <<255, 216, 74, 255, 217>>],
      [name |-> "c.jpg", type |-> "image/jpeg", bytes |-> <<255, 216, 0, 0, 255, 217>>],
      [name |-> "d.txt", type |-> "text/plain", bytes |-> <<74>>] }

PageKeys == {"4", "ArrowRight", "End"}
PageJumpRegions == {"eoi"}
PageFindTexts == {<<74>>, <<75>>}
PageReplaceTexts == {<<>>, <<75>>}
PageInsertTexts == {<<>>, <<74>>}

PagePushFits == state.historyIndex + 2 <= MaxPageHistory

\* the handler took the page to next; a handler that pushed a snapshot is
\* taken only while the history has room
PageEvent(next) ==
    /\ next.state.history # state.history => PagePushFits
    /\ grid' = next.grid
    /\ state' = next.state
    /\ regionOffsets' = next.offsets
    /\ preview' = next.preview
    /\ UNCHANGED <<last, prev, created, events, classifierVars, search>>

\* the change listener of fileInput and the drop listener: handleFile
SelectFile ==
    \E f \in PageFiles :
        /\ \A k \in 1..Len(reads.pending) : reads.pending[k] # f
        /\ reads' = [reads EXCEPT !.pending = handleFile(@, f)]
        /\ UNCHANGED <<editorVars, gridVars, classifierVars, search, preview>>

\* reader.onload of one of the reads in flight
ReadCompletes ==
    \E k \in 1..Len(reads.pending) :
        LET file == reads.pending[k] IN
        /\ PageEvent(pageLoad(Page, file.bytes, Some(file.name)))
        /\ reads' = [reads EXCEPT !.pending =
                        SubSeq(@, 1, k - 1) \o SubSeq(@, k + 1, Len(@))]

PageKeyDown ==
    \E key \in PageKeys :
        /\ PageEvent(handleKeyDown(Page, key, FALSE))
        /\ UNCHANGED reads

PageClick ==
    \E offset \in 0..(grid.renderLength - 1) :
        /\ PageEvent(handleClick(Page, offset))
        /\ UNCHANGED reads

PageJump ==
    \E region \in PageJumpRegions, dir \in JumpDirections :
        /\ PageEvent(pageJump(Page, region, dir))
        /\ UNCHANGED reads

FindClick ==
    \E findText \in PageFindTexts, replaceText \in PageReplaceTexts :
        /\ PageEvent(findClick(Page, findText, replaceText))
        /\ UNCHANGED reads

InsertClick ==
    \E text \in PageInsertTexts :
        /\ PageEvent(insertText(Page, text))
        /\ UNCHANGED reads

UndoClick ==
    /\ PageEvent(undoClick(Page))
    /\ UNCHANGED reads

RedoClick ==
    /\ PageEvent(redoClick(Page))
    /\ UNCHANGED reads

\* the timeout of schedulePreviewUpdate fires
TimeoutFires ==
    /\ preview.timers > 0
    /\ preview' = timeoutFires(preview, state)
    /\ UNCHANGED <<editorVars, gridVars, classifierVars, search, reads>>

PageNext ==
    \/ SelectFile
    \/ ReadCompletes
    \/ PageKeyDown
    \/ PageClick
    \/ PageJump
    \/ FindClick
    \/ InsertClick
    \/ UndoClick
    \/ RedoClick

SpecPage == Init /\ [][PageNext]_vars

\* ------------------------------------------------------------------------
\* The preview: the handlers that change the snapshot, and the timeout of
\* schedulePreviewUpdate.
\* ------------------------------------------------------------------------
PreviewNext ==
    \/ SelectFile
    \/ ReadCompletes
    \/ PageKeyDown
    \/ InsertClick
    \/ UndoClick
    \/ RedoClick
    \/ TimeoutFires

SpecPreview == Init /\ [][PreviewNext]_vars

\* a timeout that was set fires after its delay
SpecPreviewLive == Init /\ [][PreviewNext]_vars /\ WF_vars(TimeoutFires)

\* ------------------------------------------------------------------------
\* File selections alone, with the names of the accepted files kept in the
\* order they were selected: the user selects files one after the other and
\* the reads complete in any order.
\* ------------------------------------------------------------------------
MaxSelections == 3

\* the files of the page and three more that fit the cap
ReadFiles ==
    PageFiles \cup
    { [name |-> "a.jpg", type |-> "image/jpeg", bytes |-> <<255, 216, 255, 217>>],
      [name |-> "e.png", type |-> "image/png", bytes |-> <<137, 80, 78, 71>>],
      [name |-> "f.jpg", type |-> "image/jpeg", bytes |-> <<255, 216, 255>>] }

SelectFileInOrder ==
    \E f \in ReadFiles :
        /\ Len(reads.selected) < MaxSelections
        /\ \A k \in 1..Len(reads.selected) : reads.selected[k] # f.name
        /\ LET pending == handleFile(reads.pending, f) IN
           reads' = [pending |-> pending,
                     selected |-> IF pending # reads.pending
                                  THEN Append(reads.selected, f.name)
                                  ELSE reads.selected]
        /\ UNCHANGED <<editorVars, gridVars, classifierVars, search, preview>>

\* reader.onload of one of the reads in flight
SelectedReadCompletes ==
    \E k \in 1..Len(reads.pending) :
        LET file == reads.pending[k]
            next == pageLoad(Page, file.bytes, Some(file.name))
        IN /\ grid' = next.grid
           /\ state' = next.state
           /\ regionOffsets' = next.offsets
           /\ preview' = next.preview
           /\ reads' = [reads EXCEPT !.pending =
                           SubSeq(@, 1, k - 1) \o SubSeq(@, k + 1, Len(@))]
           /\ UNCHANGED <<last, prev, created, events, classifierVars, search>>

ReadNext == SelectFileInOrder \/ SelectedReadCompletes \/ TimeoutFires

SpecRead == Init /\ [][ReadNext]_vars

\* ------------------------------------------------------------------------
\* Properties
\* ------------------------------------------------------------------------
\* the call pushed a snapshot: a load, an edit of a loaded buffer, or an
\* insert of a non-empty payload into a loaded buffer
Committed(call) ==
    \/ call.op = "load"
    \/ call.op = "edit" /\ call.pre.bytes # null
    \/ call.op = "insert" /\ call.pre.bytes # null /\ Len(call.data) > 0

\* o clamped into [lo, hi]
Clamp(o, lo, hi) == IF o < lo THEN lo ELSE IF o > hi THEN hi ELSE o

\* C1: undo() immediately after an edit of a loaded buffer returns true and
\* makes the current bytes equal to the bytes that were current before the edit.
UndoRoundTrip ==
    (last.op = "undo" /\ prev.op = "edit" /\ prev.bytes # null)
        => (last.ret = Some(TRUE) /\ state.bytes = prev.bytes)

UndoRoundTripWitness ==
    /\ last.op = "undo" /\ prev.op = "edit" /\ prev.bytes # null
    /\ last.pre.bytes # prev.bytes
    /\ state.bytes = prev.bytes

\* C2: redo() immediately after a successful undo() returns true and restores
\* the bytes and the historyIndex that were current before the undo.
RedoRoundTrip ==
    (last.op = "redo" /\ prev.op = "undo" /\ prev.ret = Some(TRUE))
        => /\ last.ret = Some(TRUE)
           /\ state.bytes = prev.bytes
           /\ state.historyIndex = prev.historyIndex

RedoRoundTripWitness ==
    /\ last.op = "redo" /\ prev.op = "undo" /\ prev.ret = Some(TRUE)
    /\ last.pre.bytes # prev.bytes
    /\ state.bytes = prev.bytes
    /\ state.historyIndex = prev.historyIndex

\* C3: an edit or insert committed while a redo branch exists discards every
\* entry after the cursor, keeps entries 0..cursor, appends the new snapshot
\* as the last entry, and leaves canRedo() false.
BranchDiscard ==
    (last.op \in {"edit", "insert"} /\ Committed(last) /\ canRedo(last.pre))
        => /\ Len(state.history) = last.pre.historyIndex + 2
           /\ \A i \in 0..last.pre.historyIndex :
                  At(state.history, i) = At(last.pre.history, i)
           /\ At(state.history, Len(state.history) - 1) = Val(state.bytes)
           /\ ~canRedo(state)

BranchDiscardWitness ==
    /\ last.op \in {"edit", "insert"} /\ Committed(last) /\ canRedo(last.pre)
    /\ Len(last.pre.history) - last.pre.historyIndex >= 3
    /\ Len(state.history) = last.pre.historyIndex + 2

\* C4: load(bytes, name) in any state leaves a history of exactly one
\* snapshot built from bytes (historyIndex 0, canUndo() and canRedo() false)
\* and activeOffset 0.
LoadResetsHistory ==
    last.op = "load"
        => /\ state.history = <<last.data>>
           /\ state.historyIndex = 0
           /\ ~canUndo(state)
           /\ ~canRedo(state)
           /\ state.activeOffset = 0

\* C5: historyIndex lies in [-1, history.length - 1], it is -1 exactly when
\* no buffer is loaded, and it is history.length - 1 right after a load, edit
\* or insert that pushed a snapshot.
HistoryIndexRange ==
    /\ state.historyIndex \in -1..(Len(state.history) - 1)
    /\ (state.historyIndex = -1) <=> (state.bytes = null)
    /\ Committed(last) => state.historyIndex = Len(state.history) - 1

HistoryIndexRangeWitness ==
    /\ Committed(last) /\ canRedo(last.pre)
    /\ state.historyIndex = Len(state.history) - 1

\* C6: activeOffset is in [0, length - 1] when the buffer is not empty and 0
\* otherwise; setActiveOffset(o) sets it to o clamped into that range.
ActiveOffsetInRange ==
    LET length == IF state.bytes = null THEN 0 ELSE Len(Val(state.bytes)) IN
    /\ length > 0 => state.activeOffset \in 0..(length - 1)
    /\ length = 0 => state.activeOffset = 0
    /\ (last.op = "setActiveOffset" /\ length > 0)
           => state.activeOffset = Clamp(last.offset, 0, length - 1)

ActiveOffsetInRangeWitness ==
    /\ last.op = "undo" /\ last.ret = Some(TRUE)
    /\ Len(Val(state.bytes)) > 0
    /\ last.pre.activeOffset >= Len(Val(state.bytes))
    /\ state.activeOffset = Len(Val(state.bytes)) - 1

\* C7: insert(o, ins) into a loaded buffer with non-empty ins, o' being o
\* clamped into [0, old length]: the new buffer is old[0, o') ++ ins ++
\* old[o', end), exactly one snapshot is pushed, and activeOffset becomes o'.
InsertSplices ==
    (last.op = "insert" /\ Committed(last))
        => LET old == Val(last.pre.bytes)
               new == Val(state.bytes)
               ins == last.data
               o == Clamp(last.offset, 0, Len(old))
           IN /\ Len(new) = Len(old) + Len(ins)
              /\ \A i \in 0..(o - 1) : At(new, i) = At(old, i)
              /\ \A i \in 0..(Len(ins) - 1) : At(new, o + i) = At(ins, i)
              /\ \A i \in o..(Len(old) - 1) : At(new, i + Len(ins)) = At(old, i)
              /\ state.history =
                     Append(Slice(last.pre.history, 0, last.pre.historyIndex + 1), new)
              /\ state.activeOffset = o

InsertSplicesWitness ==
    /\ last.op = "insert" /\ Committed(last)
    /\ last.offset > 0 /\ last.offset < Len(Val(last.pre.bytes))
    /\ Slice(Val(state.bytes), last.offset, last.offset + Len(last.data)) = last.data
    /\ Len(Val(state.bytes)) > last.offset + Len(last.data)

\* C8: the current bytes equal history[historyIndex], and the last call left
\* every history entry it retained unchanged: an entry changes or disappears
\* only beyond the cursor, when a snapshot is pushed.
CopyOnWrite ==
    /\ state.bytes # null => Val(state.bytes) = At(state.history, state.historyIndex)
    /\ \A i \in 0..(Len(last.pre.history) - 1) :
           \/ /\ i < Len(state.history)
              /\ At(state.history, i) = At(last.pre.history, i)
           \/ /\ Committed(last)
              /\ i > last.pre.historyIndex

CopyOnWriteWitness ==
    /\ last.op = "edit" /\ Committed(last)
    /\ state.bytes # last.pre.bytes
    /\ Len(last.pre.history) >= 2
    /\ \A i \in 0..last.pre.historyIndex :
           At(state.history, i) = At(last.pre.history, i)

\* C9: the stored layout equals analyzeJpeg of the current bytes (null when
\* nothing is loaded) and fileSize equals the current byte length.
LayoutFresh ==
    /\ state.layout = (IF state.bytes = null THEN null ELSE analyzeJpeg(Val(state.bytes)))
    /\ state.fileSize = (IF state.bytes = null THEN 0 ELSE Len(Val(state.bytes)))

LayoutFreshWitness ==
    /\ last.op = "undo" /\ last.ret = Some(TRUE)
    /\ state.layout # null
    /\ state.layout # last.pre.layout
    /\ state.layout = analyzeJpeg(Val(state.bytes))

\* C10: edit with no loaded buffer, and insert with no loaded buffer or an
\* empty payload, leave the whole state unchanged and do not invoke the mutator.
NoOpsAreSilent ==
    (\/ last.op = "edit" /\ last.pre.bytes = null
     \/ last.op = "insert" /\ (last.pre.bytes = null \/ Len(last.data) = 0))
        => (state = last.pre /\ last.calls = 0)

NoOpsAreSilentWitness ==
    /\ last.op = "insert" /\ last.pre.bytes # null /\ Len(last.data) = 0
    /\ Len(state.history) >= 2
    /\ state = last.pre

\* C11: undo() returns false and leaves the state unchanged when
\* historyIndex <= 0, redo() returns false and leaves the state unchanged
\* when historyIndex is -1 or at the last entry; otherwise each returns true
\* and moves historyIndex by exactly one.
UndoRedoGuards ==
    /\ last.op = "undo" =>
           IF last.pre.historyIndex <= 0
           THEN last.ret = Some(FALSE) /\ state = last.pre
           ELSE last.ret = Some(TRUE)
                /\ state.historyIndex = last.pre.historyIndex - 1
    /\ last.op = "redo" =>
           IF \/ last.pre.historyIndex = -1
              \/ last.pre.historyIndex = Len(last.pre.history) - 1
           THEN last.ret = Some(FALSE) /\ state = last.pre
           ELSE last.ret = Some(TRUE)
                /\ state.historyIndex = last.pre.historyIndex + 1

UndoRedoGuardsWitness ==
    /\ last.op = "redo" /\ prev.op = "undo"
    /\ last.pre.historyIndex = 0
    /\ Len(last.pre.history) = 1
    /\ last.ret = Some(FALSE)
    /\ state = last.pre

\* ------------------------------------------------------------------------
\* Properties of the classifier (under SpecClassify)
\* ------------------------------------------------------------------------
\* the offsets at which a run of equal adjacent tags starts
RunStarts(regions) ==
    { i \in 0..(Len(regions) - 1) : i = 0 \/ At(regions, i) # At(regions, i - 1) }

\* the offset after the last one of the run that starts at s
RunEnd(regions, s) ==
    LET later == { t \in RunStarts(regions) : t > s } IN
    IF later = {} THEN Len(regions)
    ELSE CHOOSE t \in later : \A u \in later : t <= u

\* the input starts with the sentinel FF D8 and has at least 4 bytes
Recognized(b) == Len(b) >= 4 /\ At(b, 0) = 255 /\ At(b, 1) = 216

\* C12: analyzeJpeg returns null exactly when the input has fewer than 4
\* bytes or does not start with FF D8, and a layout otherwise; with a null
\* layout, and for an offset outside [0, length), classifyByte is "unknown".
ClassifyRejects ==
    analysis.pc = "done" =>
        /\ (analysis.layout = null) <=> ~Recognized(analysis.bytes)
        /\ analysis.layout = analyzeJpeg(analysis.bytes)
        /\ \A o \in -2..(Len(analysis.bytes) + 2) :
               (analysis.layout = null \/ o < 0 \/ o >= Len(analysis.bytes))
                   => classifyByte(o, analysis.layout) = "unknown"

ClassifyRejectsWitness ==
    /\ analysis.pc = "done"
    /\ Len(analysis.bytes) >= 4
    /\ At(analysis.bytes, 0) = 255 /\ At(analysis.bytes, 1) # 216
    /\ analysis.layout = null
    /\ classifyByte(0, analysis.layout) = "unknown"

\* C13: a layout has the length of the input, one tag of the closed tag set
\* per offset, and its maximal runs of equal tags partition [0, length).
LayoutPartition ==
    (analysis.pc = "done" /\ analysis.layout # null) =>
        LET layout == Val(analysis.layout)
            starts == RunStarts(layout.regions)
        IN /\ layout.length = Len(analysis.bytes)
           /\ Len(layout.regions) = layout.length
           /\ \A o \in 0..(layout.length - 1) : At(layout.regions, o) \in RegionCodes
           /\ \A o \in 0..(layout.length - 1) :
                  Cardinality({ r \in starts : r <= o /\ o < RunEnd(layout.regions, r) }) = 1
           /\ \A r \in starts : \A o \in r..(RunEnd(layout.regions, r) - 1) :
                  At(layout.regions, o) = At(layout.regions, r)

LayoutPartitionWitness ==
    /\ analysis.pc = "done" /\ analysis.layout # null
    /\ iter.branch = "abort"
    /\ Cardinality(RunStarts(Val(analysis.layout).regions)) >= 4
    /\ Val(analysis.layout).length = Len(analysis.bytes)

\* C14 as claimed: for SOI, APP0 (FF E0 00 10, 14 bytes), DQT (FF DB 00 05,
\* 3 bytes), EOI the layout tags [0,2) soi, [2,18) app, [18,25) dqt and
\* [25,27) eoi.
ScenarioTagsAsClaimed ==
    (analysis.pc = "done" /\ analysis.bytes \in ScenarioInputs) =>
        \A o \in 0..26 :
            classifyByte(o, analysis.layout) =
                IF o < 2 THEN "soi" ELSE IF o < 18 THEN "app"
                ELSE IF o < 25 THEN "dqt" ELSE "eoi"

\* C14 amended: the input has 29 bytes and the layout tags [0,2) soi,
\* [2,20) app, [20,27) dqt and [27,29) eoi (a segment ends at marker start
\* + 2 + length).
ScenarioTags ==
    (analysis.pc = "done" /\ analysis.bytes \in ScenarioInputs) =>
        /\ Len(analysis.bytes) = 29
        /\ \A o \in 0..28 :
               classifyByte(o, analysis.layout) =
                   IF o < 2 THEN "soi" ELSE IF o < 20 THEN "app"
                   ELSE IF o < 27 THEN "dqt" ELSE "eoi"

ScenarioTagsWitness ==
    /\ analysis.pc = "done" /\ analysis.bytes \in ScenarioInputs
    /\ At(analysis.bytes, 6) = 255
    /\ classifyByte(19, analysis.layout) = "app"
    /\ classifyByte(20, analysis.layout) = "dqt"
    /\ classifyByte(28, analysis.layout) = "eoi"

\* C15: when consumeScanData is at a pair FF 00 it tags both bytes scan,
\* advances by 2 and goes on consuming; the two bytes stay tagged scan in
\* the layout returned.
StuffedPairs ==
    LET b == analysis.bytes IN
    /\ (/\ iter.loop = "scan"
        /\ iter.pre.pos < Len(b) - 1
        /\ At(b, iter.pre.pos) = 255
        /\ At(b, iter.pre.pos + 1) = 0)
           => /\ iter.branch = "stuffed"
              /\ analysis.pos = iter.pre.pos + 2
              /\ analysis.pc = "scan"
              /\ iter.pre.pos \in stuffed
    /\ \A i \in stuffed :
           /\ At(b, i) = 255 /\ At(b, i + 1) = 0
           /\ At(analysis.regions, i) = Scan
           /\ At(analysis.regions, i + 1) = Scan
    /\ analysis.pc = "done" =>
           \A i \in stuffed :
               /\ classifyByte(i, analysis.layout) = "scan"
               /\ classifyByte(i + 1, analysis.layout) = "scan"

StuffedPairsWitness ==
    /\ analysis.pc = "done"
    /\ Cardinality(stuffed) >= 2
    /\ \A i \in stuffed : classifyByte(i + 1, analysis.layout) = "scan"

\* the marker ids analyzeJpeg handles as two bytes without a length: EOI,
\* SOI, RST0-RST7 and TEM
TwoByteIds == {217, 216, 1} \cup 208..215

\* the tag of a two-byte marker
TwoByteTag(id) ==
    IF id = 217 THEN Eoi ELSE IF id = 216 THEN Soi ELSE IF id = 1 THEN Other ELSE Rst

\* the last iteration was one of the while loop of analyzeJpeg at a marker
\* prefix followed by an id
AtMarker ==
    /\ iter.loop = "outer"
    /\ iter.pre.pos < Len(analysis.bytes) - 1
    /\ At(analysis.bytes, iter.pre.pos) = 255

\* the segment at p has a whole length field, a length of at least 2 and
\* ends inside the buffer
ValidSegment(b, p) ==
    /\ p + 3 < Len(b)
    /\ At(b, p + 2) * 256 + At(b, p + 3) >= 2
    /\ p + 2 + At(b, p + 2) * 256 + At(b, p + 3) <= Len(b)

\* the last iteration tagged exactly the two bytes at p and advanced by 2
TaggedTwo(p, tag) ==
    /\ analysis.pos = p + 2
    /\ analysis.pc = "outer"
    /\ \A o \in 0..(Len(analysis.bytes) - 1) :
           At(analysis.regions, o) =
               IF o = p \/ o = p + 1 THEN tag ELSE At(iter.pre.regions, o)

\* the last iteration read a segment at p: it aborted on an invalid one and
\* otherwise advanced to p + 2 + length
ReadSegmentAt(p) ==
    LET b == analysis.bytes IN
    IF ValidSegment(b, p)
    THEN /\ analysis.pos = p + 2 + At(b, p + 2) * 256 + At(b, p + 3)
         /\ analysis.pc \in {"outer", "scan"}
    ELSE /\ iter.branch = "abort"
         /\ analysis.pc = "done"

\* C16: a length-carrying marker at p whose length is below 2 or runs past
\* the end aborts the classification: the layout is not null, keeps every tag
\* written before and has every offset >= p tagged unknown.
AbortLeavesUnknown ==
    LET b == analysis.bytes
        p == iter.pre.pos
    IN (/\ AtMarker
        /\ At(b, p + 1) \notin TwoByteIds
        /\ p + 3 < Len(b)
        /\ ~ValidSegment(b, p))
           => /\ iter.branch = "abort"
              /\ analysis.pc = "done"
              /\ analysis.layout # null
              /\ Val(analysis.layout).regions = iter.pre.regions
              /\ \A o \in p..(Len(b) - 1) : classifyByte(o, analysis.layout) = "unknown"

\* C17 as claimed: EOI, RST0-RST7 and TEM tag two bytes and advance by 2;
\* every other id is read as a segment.
MarkerDispatchAsClaimed ==
    LET p == iter.pre.pos
        id == At(analysis.bytes, p + 1)
    IN AtMarker =>
           IF id \in TwoByteIds \ {216}
           THEN TaggedTwo(p, TwoByteTag(id))
           ELSE ReadSegmentAt(p)

\* C17 amended: EOI, SOI, RST0-RST7 and TEM tag two bytes and advance by 2;
\* every other id is read as a segment with a 2-byte big-endian length that
\* ends at p + 2 + length.
MarkerDispatch ==
    LET p == iter.pre.pos
        id == At(analysis.bytes, p + 1)
    IN AtMarker =>
           IF id \in TwoByteIds
           THEN TaggedTwo(p, TwoByteTag(id))
           ELSE ReadSegmentAt(p)

MarkerDispatchWitness ==
    /\ AtMarker
    /\ At(analysis.bytes, iter.pre.pos + 1) = 216
    /\ analysis.pos = iter.pre.pos + 2
    /\ At(analysis.regions, iter.pre.pos) = Soi

\* ------------------------------------------------------------------------
\* Properties of the page handlers (under SpecHost) and of indexOfBytes
\* (under SpecSearch)
\* ------------------------------------------------------------------------
\* the run starts of the layout whose tag is region
RunStartsOf(layout, region) ==
    IF layout = null THEN {}
    ELSE { s \in RunStarts(Val(layout).regions) :
               codeToRegion(At(Val(layout).regions, s)) = region }

\* the elements of a sequence
Elements(seq) == { seq[k] : k \in 1..Len(seq) }

\* C18: a jump for a region with run starts S from cursor c: no target when
\* S is empty, the one run when S has one element, otherwise for next the
\* least start above c or else the first run, for prev the greatest start
\* below c or else the last run; the cursor moves to the target.
JumpTargets ==
    (last.op = "jump" /\ last.pre.bytes # null) =>
        LET region == Val(last.name)
            S == Elements(regionOffsets[region])
            c == last.pre.activeOffset
            above == { s \in S : s > c }
            below == { s \in S : s < c }
        IN /\ S = RunStartsOf(last.pre.layout, region)
           /\ Len(regionOffsets[region]) = Cardinality(S)
           /\ S = {} => (last.ret = null /\ state = last.pre)
           /\ Cardinality(S) = 1 => last.ret = Some(Least(S))
           /\ (Cardinality(S) > 1 /\ last.kind = "next") =>
                  last.ret = Some(IF above # {} THEN Least(above) ELSE Least(S))
           /\ (Cardinality(S) > 1 /\ last.kind = "prev") =>
                  last.ret = Some(IF below # {} THEN Greatest(below) ELSE Greatest(S))
           /\ last.ret # null =>
                  state = [last.pre EXCEPT !.activeOffset = Val(last.ret)]

JumpTargetsWitness ==
    /\ last.op = "jump" /\ last.kind = "next"
    /\ Len(regionOffsets[Val(last.name)]) = 3
    /\ last.pre.activeOffset = At(regionOffsets[Val(last.name)], 2)
    /\ last.ret = Some(At(regionOffsets[Val(last.name)], 0))
    /\ state.activeOffset = At(regionOffsets[Val(last.name)], 0)

\* the offsets at which needle occurs contiguously in haystack
Occurrences(haystack, needle) ==
    { i \in 0..Len(haystack) :
          /\ i + Len(needle) <= Len(haystack)
          /\ SubSeq(haystack, i + 1, i + Len(needle)) = needle }

\* C19: indexOfBytes returns the least offset i >= fromIndex at which the
\* needle occurs in the haystack, and -1 when there is none.
SearchFindsFirst ==
    search.pc = "done" =>
        LET found == { i \in Occurrences(search.haystack, search.needle) :
                           i >= search.fromIndex }
        IN search.result = IF found = {} THEN -1 ELSE Least(found)

SearchFindsFirstWitness ==
    /\ search.pc = "done"
    /\ search.fromIndex = 1
    /\ search.result = 2
    /\ 0 \in Occurrences(search.haystack, search.needle)
    /\ Len(search.needle) = 2

\* C20: a find that did not search or did not match changes nothing.  A find
\* that matched at index: with a replacement of the length of the match one
\* snapshot is pushed in which exactly the matched span is overwritten and
\* the length is unchanged; with any other replacement bytes, history and
\* historyIndex are unchanged and only activeOffset changes, to index.
ReplaceSameLength ==
    /\ (last.op = "find" /\ (last.ret = null \/ last.ret = Some(-1)))
           => state = last.pre
    /\ (last.op = "find" /\ last.ret # null /\ last.ret # Some(-1)) =>
        LET index == Val(last.ret)
            matched == Len(Val(last.name))
            replacement == last.data
            old == Val(last.pre.bytes)
            new == Val(state.bytes)
        IN IF Len(replacement) = matched
           THEN /\ state.history =
                       Append(Slice(last.pre.history, 0, last.pre.historyIndex + 1), new)
                /\ state.historyIndex = last.pre.historyIndex + 1
                /\ Len(new) = Len(old)
                /\ \A o \in 0..(Len(old) - 1) :
                       At(new, o) = IF o >= index /\ o < index + matched
                                    THEN At(replacement, o - index) % 256
                                    ELSE At(old, o)
                /\ state.activeOffset = index
           ELSE state = [last.pre EXCEPT !.activeOffset = index]

ReplaceSameLengthWitness ==
    /\ last.op = "find" /\ last.ret # null /\ last.ret # Some(-1)
    /\ Len(last.data) = Len(Val(last.name))
    /\ canRedo(last.pre)
    /\ state.bytes # last.pre.bytes
    /\ Val(last.ret) > 0
    /\ ~canRedo(state)

\* ------------------------------------------------------------------------
\* More properties of the classifier (under SpecClassify, SpecClassifyLive)
\* ------------------------------------------------------------------------
\* the tag of a segment by its id, the scan-start id DA left aside
SegmentTag(id) ==
    IF id >= 224 /\ id <= 239 THEN App
    ELSE IF id = 219 THEN Dqt
    ELSE IF id = 196 THEN Dht
    ELSE IF id = 221 THEN Dri
    ELSE IF id = 254 THEN Com
    ELSE IF id >= 192 /\ id <= 207 /\ id \notin {196, 200, 204} THEN Sof
    ELSE Other

\* the end of the valid segment at p: p + 2 + big-endian length
SegmentEnd(b, p) == p + 2 + At(b, p + 2) * 256 + At(b, p + 3)

\* the last iteration tagged the n bytes at p, left every other tag, moved
\* the position to p + n and control to pc
Consumed(p, n, tag, pc) ==
    /\ analysis.pos = p + n
    /\ analysis.pc = pc
    /\ \A o \in 0..(Len(analysis.bytes) - 1) :
           At(analysis.regions, o) =
               IF o >= p /\ o < p + n THEN tag ELSE At(iter.pre.regions, o)

ScanConsumption ==
    LET b == analysis.bytes
        p == iter.pre.pos
        len == Len(analysis.bytes)
        Stopped(pc) == /\ analysis.pc = pc
                       /\ analysis.pos = p
                       /\ analysis.regions = iter.pre.regions
    IN /\ (AtMarker /\ At(b, p + 1) = 218 /\ ValidSegment(b, p)) =>
              Consumed(p, SegmentEnd(b, p) - p, SosHeader, "scan")
       /\ iter.loop = "scan" =>
              IF p >= len - 1 THEN Stopped("trail")
              ELSE IF At(b, p) # 255 THEN Consumed(p, 1, Scan, "scan")
              ELSE IF At(b, p + 1) = 0 THEN Consumed(p, 2, Scan, "scan")
              ELSE IF At(b, p + 1) \in 208..215 THEN Consumed(p, 2, Rst, "scan")
              ELSE IF At(b, p + 1) = 255 THEN Consumed(p, 1, Scan, "scan")
              ELSE Stopped("outer")
       /\ iter.loop = "trail" =>
              IF p < len THEN Consumed(p, 1, Scan, "trail")
              ELSE Stopped("outer") /\ analysis.pos = len

ScanConsumptionWitness ==
    /\ iter.loop = "scan" /\ iter.branch = "marker"
    /\ iter.pre.pos >= 2
    /\ At(analysis.regions, iter.pre.pos - 1) = Rst
    /\ At(analysis.regions, iter.pre.pos - 2) = Rst
    /\ analysis.pc = "outer"
    /\ analysis.pos = iter.pre.pos

\* the four bytes at q are FF D9 FF D8: an EOI followed by the SOI of a
\* further image
Concatenated(b, q) ==
    /\ q + 3 < Len(b)
    /\ At(b, q) = 255 /\ At(b, q + 1) = 217
    /\ At(b, q + 2) = 255 /\ At(b, q + 3) = 216

\* C23: after tagging an EOI the loop of analyzeJpeg goes on two bytes
\* further, and in the layout returned the SOI of a further image that
\* follows a tagged EOI is tagged soi.
EoiContinues ==
    LET b == analysis.bytes
        p == iter.pre.pos
    IN /\ (AtMarker /\ At(b, p + 1) = 217) => Consumed(p, 2, Eoi, "outer")
       /\ (analysis.pc = "done" /\ analysis.layout # null) =>
              \A q \in 2..(Len(b) - 4) :
                  (/\ Concatenated(b, q)
                   /\ classifyByte(q, analysis.layout) = "eoi"
                   /\ classifyByte(q + 1, analysis.layout) = "eoi")
                      => /\ classifyByte(q + 2, analysis.layout) = "soi"
                         /\ classifyByte(q + 3, analysis.layout) = "soi"

EoiContinuesWitness ==
    /\ analysis.pc = "done" /\ analysis.layout # null
    /\ Concatenated(analysis.bytes, 2)
    /\ classifyByte(3, analysis.layout) = "eoi"
    /\ classifyByte(4, analysis.layout) = "soi"
    /\ Len(analysis.bytes) >= 8
    /\ classifyByte(7, analysis.layout) = "eoi"

\* an iteration leaves its loop, or moves the position forward and not
\* beyond the end of the buffer
IterationProgress ==
    \/ analysis.pc = "start"
    \/ /\ analysis'.pos > analysis.pos
       /\ analysis'.pos <= Len(analysis.bytes)
    \/ /\ analysis.pc = "outer" /\ analysis'.pc = "done"
       /\ analysis'.pos = analysis.pos
    \/ /\ analysis.pc = "scan" /\ analysis'.pc \in {"outer", "trail"}
       /\ analysis'.pos = analysis.pos
    \/ /\ analysis.pc = "trail" /\ analysis'.pc = "outer"
       /\ analysis'.pos = analysis.pos

\* C30: every iteration of the loops of analyzeJpeg and consumeScanData
\* leaves its loop or moves the position forward, the position never exceeds
\* the length of the buffer, and analyzeJpeg returns.
Terminates ==
    /\ [][IterationProgress]_vars
    /\ [](analysis.pos <= Len(analysis.bytes))
    /\ <>(analysis.pc = "done")

TerminatesWitness ==
    /\ analysis.pc = "done" /\ analysis.layout # null
    /\ iter.loop = "outer" /\ iter.branch = "end"
    /\ analysis.pos = Len(analysis.bytes)
    /\ stuffed # {}
    /\ \E o \in 0..(Len(analysis.bytes) - 1) : At(analysis.regions, o) = Rst

\* the offsets at which a maximal run of bytes tagged tag starts
TagRunStarts(layout, tag) ==
    IF layout = null THEN {}
    ELSE { i \in 0..(Val(layout).length - 1) :
               /\ classifyByte(i, layout) = tag
               /\ i = 0 \/ classifyByte(i - 1, layout) # tag }

\* a sequence of integers in strictly ascending order
Ascending(seq) == \A j, k \in 1..Len(seq) : j < k => seq[j] < seq[k]

\* C24: after a load the region index holds, for each tag of the Jump To
\* menu and for no other tag, exactly the start offsets of the maximal runs
\* of bytes with that tag, in ascending order; the count of a tag is the
\* number of its starts.
RegionIndex ==
    last.op = "load" =>
        /\ DOMAIN regionOffsets = RegionIds
        /\ {"scan", "sof-width", "other", "unknown"} \cap DOMAIN regionOffsets = {}
        /\ \A id \in RegionIds :
               /\ Elements(regionOffsets[id]) = TagRunStarts(state.layout, id)
               /\ Ascending(regionOffsets[id])
               /\ ensureRegionCounts(regionOffsets)[id]
                      = Cardinality(TagRunStarts(state.layout, id))

\* a file in which bytes outside the menu, and only those, separate two runs
\* of one tag of the menu
RegionIndexWitness ==
    /\ last.op = "load"
    /\ \E id \in RegionIds :
           /\ Len(regionOffsets[id]) >= 2
           /\ \A i \in At(regionOffsets[id], 0)..(At(regionOffsets[id], 1) - 1) :
                  classifyByte(i, state.layout) \in {id, "other", "scan", "sof-width", "unknown"}

\* the region index is the one of the current snapshot
Fresh ==
    \A id \in RegionIds :
        /\ Elements(regionOffsets[id]) = TagRunStarts(state.layout, id)
        /\ Ascending(regionOffsets[id])

\* C25: after every completed user action (load, byte edit, replace, insert,
\* undo, redo, caret move) the region index is the one computed from the
\* current snapshot.
IndexFresh ==
    last.op # "none" => Fresh

\* a successful undo that changed the index
IndexFreshWitness ==
    /\ last.op = "undo" /\ last.ret = Some(TRUE)
    /\ regionOffsets # recomputeRegionOffsets(last.pre)
    /\ regionOffsets["soi"] = <<0>>

\* C26: the history loses or changes an entry, or gets shorter, only in a
\* pushSnapshot made while historyIndex is below the last entry, and then
\* only after historyIndex; otherwise the old history is a prefix of the new
\* one; undo, redo and setActiveOffset leave the history as it is.
HistoryOnlyTruncatedOnPush ==
    last.op # "none" =>
        LET h0 == last.pre.history
            h1 == state.history
            truncating == Pushes(last) /\ last.pre.historyIndex >= 0
                              /\ last.pre.historyIndex < Len(h0) - 1
            retained == IF truncating THEN last.pre.historyIndex + 1 ELSE Len(h0)
        IN /\ Len(h1) >= retained
           /\ \A k \in 1..retained : h1[k] = h0[k]
           /\ Len(h1) < Len(h0) => truncating
           /\ last.op \in {"undo", "redo", "setActiveOffset"} => h1 = h0

\* a push after two undos leaves the history shorter than before
HistoryOnlyTruncatedOnPushWitness ==
    /\ Pushes(last)
    /\ last.pre.historyIndex = 0
    /\ Len(last.pre.history) = 3
    /\ Len(state.history) = 2
    /\ At(state.history, 0) = At(last.pre.history, 0)

\* C27: a successful undo or redo leaves as current bytes the history entry
\* at historyIndex, as layout the classification of those bytes, and as
\* fileName the name that was current when that entry was created.
SnapshotRepublished ==
    (last.op \in {"undo", "redo"} /\ last.ret = Some(TRUE)) =>
        /\ state.bytes = Some(At(state.history, state.historyIndex))
        /\ state.layout = analyzeJpeg(Val(state.bytes))
        /\ state.fileName = At(created, state.historyIndex)

\* the event was a key, a click or a load that the claim says cancels a
\* pending first nibble
Cancels(e) ==
    \/ e.kind \in {"click", "load"}
    \/ e.kind = "key" /\ e.key \in CaretKeys /\ ~e.altKey
    \/ e.kind = "key" /\ e.key = "Backspace"

\* C28: a hex digit emits an edit only as the second of two digits typed in
\* succession at the same caret, and the edit writes first * 16 + second at
\* that caret; a caret move, a click, Backspace or setData after a first
\* digit cancels it and emits no edit; Backspace with no first digit pending
\* emits the edit of the byte under the caret to 0.
NibbleEntry ==
    LET e == events
        caret == e.pre.activeOffset
    IN /\ (HexTyped(e) /\ e.typed = null) =>
              /\ e.edits = <<>>
              /\ grid.pendingNibble = parseHexKey(e.key)
       /\ (HexTyped(e) /\ e.typed # null) =>
              /\ Val(e.typed).offset = caret
              /\ e.edits = <<[offset |-> Val(e.typed).offset,
                              value |-> Val(e.typed).value * 16
                                            + Val(parseHexKey(e.key))]>>
       /\ (e.typed # null /\ Cancels(e)) =>
              /\ e.edits = <<>>
              /\ grid.pendingNibble = null
       /\ (e.kind = "key" /\ e.key = "Backspace" /\ e.typed = null
               /\ e.pre.bytes # null /\ e.pre.renderLength > 0) =>
              e.edits = <<[offset |-> caret, value |-> 0]>>

\* C29: Alt+ArrowUp and Alt+ArrowDown emit one edit, of the byte under the
\* caret to its value plus one and minus one, 255 wrapping to 0 and 0 to
\* 255; the grid emits no caret move and its caret, like the one of the
\* editor state, stays where it was.
AltArrowSteps ==
    LET e == events IN
    (e.kind = "key" /\ e.altKey /\ e.key \in {"ArrowUp", "ArrowDown"}
         /\ e.pre.bytes # null /\ e.pre.renderLength > 0) =>
        LET caret == e.pre.activeOffset
            value == At(Val(e.pre.bytes), caret)
            stepped == IF e.key = "ArrowUp"
                       THEN (IF value = 255 THEN 0 ELSE value + 1)
                       ELSE (IF value = 0 THEN 255 ELSE value - 1)
        IN /\ e.edits = <<[offset |-> caret, value |-> stepped]>>
           /\ e.moves = <<>>
           /\ grid.activeOffset = caret
           /\ state.activeOffset = caret
           /\ At(Val(state.bytes), caret) = stepped

\* Alt+ArrowDown on a byte 0 away from the start of the file wrote 255
AltArrowStepsWitness ==
    LET e == events IN
    /\ e.kind = "key" /\ e.altKey /\ e.key = "ArrowDown"
    /\ e.pre.activeOffset = 2
    /\ At(Val(e.pre.bytes), 2) = 0
    /\ e.edits = <<[offset |-> 2, value |-> 255]>>
    /\ grid.activeOffset = 2
    /\ At(Val(state.bytes), 2) = 255

\* C31: when the classification of a recognized input returns without having
\* stopped at a malformed or truncated segment, no offset of the layout is
\* tagged unknown.
NoUnknownWithoutAbort ==
    (analysis.pc = "done" /\ analysis.layout # null /\ iter.branch # "abort") =>
        \A o \in 0..(Len(analysis.bytes) - 1) :
            classifyByte(o, analysis.layout) # "unknown"

\* C32: in a layout the classifier returns, every offset tagged
\* frame-header-width is the byte at +7 or +8 of a frame-header segment and
\* lies before the end of that segment.
SofWidthInsideFrameHeader ==
    (analysis.pc = "done" /\ analysis.layout # null) =>
        LET b == analysis.bytes IN
        \A o \in 0..(Len(b) - 1) :
            classifyByte(o, analysis.layout) = "sof-width" =>
                \E p \in {o - 7, o - 8} :
                    /\ p >= 2
                    /\ At(b, p) = 255
                    /\ isSofMarker(At(b, p + 1))
                    /\ ValidSegment(b, p)
                    /\ o < SegmentEnd(b, p)

\* the counts of the Jump To menu for the layout the classification returned
CountsOf(bytes, layout) ==
    ensureRegionCounts(recomputeRegionOffsets(
        [createEmptyState EXCEPT !.bytes = Some(bytes), !.layout = layout]))

\* C33: for the layout the classifier returns, the count of each tag of the
\* Jump To menu is the number of markers and segments the classifier tagged
\* with it.
SegmentsAreTargets ==
    (analysis.pc = "done" /\ analysis.layout # null) =>
        \A id \in RegionIds :
            CountsOf(analysis.bytes, analysis.layout)[id]
                = Cardinality({ m \in recognized : m.tag = id })

\* C34: in every state the page reaches, the current buffer is at most
\* MAX_FILE_BYTES long.
BufferWithinCap ==
    state.bytes # null => Len(Val(state.bytes)) <= MAX_FILE_BYTES


\* C35: a successful undo() or redo() leaves activeOffset as it was when that
\* is below the length of the restored buffer and otherwise puts it on the
\* last byte (0 for an empty buffer); the bytes are those of the history entry.
UndoRedoKeepsCaret ==
    (last.op \in {"undo", "redo"} /\ last.ret = Some(TRUE))
        => LET length == Len(Val(state.bytes)) IN
           /\ state.bytes = Some(At(state.history, state.historyIndex))
           /\ state.activeOffset =
                  IF last.pre.activeOffset < length THEN last.pre.activeOffset
                  ELSE Max(length - 1, 0)

\* undo() then redo(): the bytes are back, the caret of before the undo is not
UndoRedoKeepsCaretWitness ==
    /\ last.op = "redo" /\ last.ret = Some(TRUE)
    /\ prev.op = "undo" /\ prev.ret = Some(TRUE)
    /\ state.bytes = prev.bytes
    /\ prev.activeOffset >= Len(Val(last.pre.bytes))
    /\ last.pre.activeOffset = Max(Len(Val(last.pre.bytes)) - 1, 0)
    /\ state.activeOffset = last.pre.activeOffset
    /\ state.activeOffset # prev.activeOffset


\* C36: caret agreement: after every completed user action (key press,
\* click, jump, find, insert, undo, redo, load) the active offset of the hex
\* grid equals state.activeOffset, and the grid shows the bytes of the state.
CaretAgreement ==
    /\ grid.activeOffset = state.activeOffset
    /\ grid.bytes = state.bytes

\* the caret was moved off byte 0 in the grid and text was inserted there
CaretAgreementWitness ==
    /\ state.historyIndex >= 1
    /\ Len(Val(state.bytes)) > Len(At(state.history, state.historyIndex - 1))
    /\ state.activeOffset > 0
    /\ grid.activeOffset = state.activeOffset
    /\ \E o \in 1..(Len(Val(state.bytes)) - 1) :
           /\ Val(state.bytes) # At(state.history, state.historyIndex - 1)
           /\ o = state.activeOffset
           /\ At(Val(state.bytes), o) = 74


\* the preview shows what updatePreview() would make of the bytes of now
PreviewCurrent == preview.url = updatePreview(preview, state).url

\* C37: debounced preview: at most one preview update is pending at any
\* time; the update that fires renders the bytes that are current when it
\* fires; the preview is out of date only while an update is pending, and a
\* preview that is out of date is eventually brought up to date.
DebouncedPreview ==
    /\ [](preview.timers <= 1 /\ (preview.timers = 1 <=> preview.scheduled))
    /\ [][preview'.timers < preview.timers =>
              preview'.url = updatePreview(preview, state').url]_vars
    /\ [](preview.timers = 0 => PreviewCurrent)
    /\ (~PreviewCurrent ~> PreviewCurrent)

\* a load and a change of the buffer, and an update after them showing the
\* buffer as changed
DebouncedPreviewWitness ==
    /\ preview.timers = 0
    /\ state.historyIndex >= 1
    /\ preview.url = state.bytes
    /\ state.bytes # Some(At(state.history, 0))


\* the file of ReadFiles with this name
FileNamed(name) == CHOOSE f \in ReadFiles : f.name = name

\* C38: when the user selects file A and then file B while A is still being
\* read, once all reads have completed the buffer and fileName are those of
\* the file selected last, whatever order the reads complete in.
LastSelectedWins ==
    (Len(reads.selected) >= 2 /\ reads.pending = <<>>)
        => LET file == FileNamed(reads.selected[Len(reads.selected)]) IN
           /\ state.fileName = Some(file.name)
           /\ state.bytes = Some(file.bytes)
====
